---- MODULE Spec2Model ----
(***************************************************************************)
(* State-machine model of the order / fulfillment / trend-suggestion core  *)
(* of the TikTok urgency engine (src/engine).  The relational tables are   *)
(* sequences of rows indexed by their autoincrement primary key; every     *)
(* HTTP handler or service method is one atomic action (one database       *)
(* session, one commit).  A nullable column holds None (the empty tuple)   *)
(* or Some(v) (a one-element tuple).                                       *)
(***************************************************************************)
EXTENDS Integers, Sequences, FiniteSets, TLC

VARIABLES
    orders,         \* table orders: Seq of Order rows, row i has id i
    products,       \* table products: Seq of Product rows
    suggestions,    \* table trend_suggestions: Seq of TrendSuggestion rows
    webhook_secret, \* STRIPE_WEBHOOK_SECRET is configured (read at import)
    product_suppliers, \* table product_suppliers: Seq of live rows, oldest first
    integrations,      \* table integrations: Seq of Integration rows
    fulfillment_rules, \* table fulfillment_rules: row i has id i, None once deleted
    product_views,     \* table product_views: Seq of ProductView rows
    trend_products,    \* table trend_products: Seq of TrendProduct rows
    in_flight,         \* the concurrent requests begun, each with its position
    last            \* the last call and what it returned to its caller

vars == <<orders, products, suggestions, webhook_secret,
          product_suppliers, integrations, fulfillment_rules, product_views,
          trend_products, in_flight, last>>

\* the tables written only by their own management endpoints, and the
\* requests running next to the one an action answers
setup_tables ==
    <<product_suppliers, integrations, fulfillment_rules, product_views, trend_products,
      in_flight>>

None == <<>>
Some(x) == <<x>>

Range(s) == {s[i] : i \in DOMAIN s}

(***************************************************************************)
(* Bounds of the model.                                                    *)
(***************************************************************************)
MaxOrders == 2

(***************************************************************************)
(* Program constants.                                                      *)
(***************************************************************************)
max_auto_order_value == 10000
auto_fulfill_enabled == TRUE

(***************************************************************************)
(* Input sets the requests are drawn from.                                 *)
(***************************************************************************)
Amounts == {max_auto_order_value, max_auto_order_value + 1}
Timestamps == {"20240101120000"}
SupplierUrl == "https://supplier.example/item"

(***************************************************************************)
(* models.Order: the columns the modelled operations read or write.        *)
(***************************************************************************)
Order(product_id, amount_cents, status, stripe_session_id) ==
    [product_id        |-> product_id,
     amount_cents      |-> amount_cents,
     status            |-> status,
     stripe_session_id |-> stripe_session_id,
     supplier_order_id |-> None,
     tracking_number   |-> None,
     tracking_url      |-> None,
     shipped_at        |-> None,
     delivered_at      |-> None]

(***************************************************************************)
(* models.Product.                                                         *)
(***************************************************************************)
Product(slug, price_cents, supplier_url, supplier_name, status) ==
    [slug          |-> slug,
     price_cents   |-> price_cents,
     supplier_url  |-> supplier_url,
     supplier_name |-> supplier_name,
     status        |-> status,
     trend_score   |-> 0,
     urgency_score |-> 0]

\* db.query(T).filter(T.id == id).first()
GetById(rows, id) == IF id \in DOMAIN rows THEN Some(rows[id]) ELSE None

\* the relationship Order.product: the row product_id points at, if any
OrderProduct(prods, order) ==
    IF order.product_id = None THEN None ELSE GetById(prods, order.product_id[1])

\* Python truthiness of an Optional[str] column
Truthy(opt) == opt # None /\ opt[1] # ""

(***************************************************************************)
(* AutoFulfillmentService.check_auto_fulfill_eligibility                   *)
(***************************************************************************)
EligibilityReasonsOverCap(ords, prods, order_id) ==
    LET order == ords[order_id]
        product == OrderProduct(prods, order)
    IN  (IF order.status # "pending"
            THEN << [text |-> "Order status is 'X', must be 'pending'", X |-> order.status] >>
            ELSE <<>>)
        \o (IF order.amount_cents >= max_auto_order_value
            THEN << [text |-> "Order value exceeds auto-fulfill limit",
                     X |-> order.amount_cents] >>
            ELSE <<>>)
        \o (IF product # None
            THEN IF ~Truthy(product[1].supplier_url)
                    THEN << [text |-> "Product does not have supplier information"] >>
                    ELSE <<>>
            ELSE << [text |-> "Order has no associated product"] >>)
        \o (IF ~auto_fulfill_enabled
            THEN << [text |-> "Auto-fulfillment is disabled"] >>
            ELSE <<>>)

EligibilityReasonsAnyStatus(ords, prods, order_id) ==
    LET order == ords[order_id]
        product == OrderProduct(prods, order)
    IN  (IF order.amount_cents > max_auto_order_value
            THEN << [text |-> "Order value exceeds auto-fulfill limit",
                     X |-> order.amount_cents] >>
            ELSE <<>>)
        \o (IF product # None
            THEN IF ~Truthy(product[1].supplier_url)
                    THEN << [text |-> "Product does not have supplier information"] >>
                    ELSE <<>>
            ELSE << [text |-> "Order has no associated product"] >>)

EligibilityReasons(ords, prods, order_id) ==
    LET order == ords[order_id]
        product == OrderProduct(prods, order)
    IN  (IF order.status # "pending"
            THEN << [text |-> "Order status is 'X', must be 'pending'", X |-> order.status] >>
            ELSE <<>>)
        \o (IF order.amount_cents > max_auto_order_value
            THEN << [text |-> "Order value exceeds auto-fulfill limit",
                     X |-> order.amount_cents] >>
            ELSE <<>>)
        \o (IF product # None
            THEN IF ~Truthy(product[1].supplier_url)
                    THEN << [text |-> "Product does not have supplier information"] >>
                    ELSE <<>>
            ELSE << [text |-> "Order has no associated product"] >>)
        \o (IF ~auto_fulfill_enabled
            THEN << [text |-> "Auto-fulfillment is disabled"] >>
            ELSE <<>>)

check_auto_fulfill_eligibility(ords, prods, order_id) ==
    IF GetById(ords, order_id) = None
    THEN [eligible |-> FALSE, reasons |-> << [text |-> "Order not found"] >>]
    ELSE LET reasons == EligibilityReasons(ords, prods, order_id)
         IN  [eligible    |-> Len(reasons) = 0,
              reasons     |-> reasons,
              order_value |-> ords[order_id].amount_cents,
              product_id  |-> ords[order_id].product_id]

(***************************************************************************)
(* FulfillmentResult and AutoFulfillmentService.auto_order_from_supplier:  *)
(* the table after the call and the result handed back.                    *)
(***************************************************************************)
FulfillmentResult(success, order_id, message, supplier_order_id) ==
    [success |-> success, order_id |-> order_id, message |-> message,
     supplier_order_id |-> supplier_order_id]

\* f"SUP-{order_id}-{datetime.now().strftime('%Y%m%d%H%M%S')}"
SupplierOrderId(order_id, now) == <<"SUP", order_id, now>>

\* the order row updated and committed
StoreSupplierOrderKeepsStatus(ords, order_id, supplier_order_id) ==
    [ords EXCEPT ![order_id].supplier_order_id = Some(supplier_order_id)]

StoreSupplierOrder(ords, order_id, supplier_order_id) ==
    [ords EXCEPT ![order_id].supplier_order_id = Some(supplier_order_id),
                 ![order_id].status = "processing"]

auto_order_from_supplier(ords, prods, order_id, now) ==
    IF GetById(ords, order_id) = None
    THEN [orders |-> ords,
          result |-> FulfillmentResult(FALSE, order_id, <<"Order not found">>, None)]
    ELSE LET eligibility == check_auto_fulfill_eligibility(ords, prods, order_id)
         IN  IF ~eligibility.eligible
             THEN [orders |-> ords,
                   result |-> FulfillmentResult(FALSE, order_id,
                                  <<"Not eligible: ", eligibility.reasons>>, None)]
             ELSE LET product == OrderProduct(prods, ords[order_id])[1]
                      supplier_name == IF Truthy(product.supplier_name)
                                       THEN product.supplier_name[1]
                                       ELSE "Unknown Supplier"
                      supplier_order_id == SupplierOrderId(order_id, now)
                  IN  [orders |-> StoreSupplierOrder(ords, order_id, supplier_order_id),
                       result |-> FulfillmentResult(TRUE, order_id,
                                      <<"Order placed with ", supplier_name>>,
                                      Some(supplier_order_id))]

(***************************************************************************)
(* AutoFulfillmentService.process_fulfillment_queue.  The query carries no *)
(* ORDER BY, so the rows may come back in any order; each call of the loop *)
(* reads the clock on its own.                                             *)
(***************************************************************************)
Perms(S) == {p \in [1..Cardinality(S) -> S] : \A i, j \in DOMAIN p : i # j => p[i] # p[j]}

PendingOrdersQuery(ords) ==
    Perms({i \in DOMAIN ords : /\ ords[i].status = "pending"
                               /\ ords[i].amount_cents <= max_auto_order_value})

RECURSIVE QueueLoopStopsAtFailure(_, _, _, _, _)
QueueLoopStopsAtFailure(ords, prods, pending_orders, nows, results) ==
    IF pending_orders = <<>> \/ (results # <<>> /\ ~results[Len(results)].success)
    THEN [orders |-> ords, results |-> results]
    ELSE LET out == auto_order_from_supplier(ords, prods, Head(pending_orders), Head(nows))
         IN  QueueLoopStopsAtFailure(out.orders, prods, Tail(pending_orders), Tail(nows),
                                     Append(results, out.result))

RECURSIVE QueueLoop(_, _, _, _, _)
QueueLoop(ords, prods, pending_orders, nows, results) ==
    IF pending_orders = <<>>
    THEN [orders |-> ords, results |-> results]
    ELSE LET out == auto_order_from_supplier(ords, prods, Head(pending_orders), Head(nows))
         IN  QueueLoop(out.orders, prods, Tail(pending_orders), Tail(nows),
                       Append(results, out.result))

process_fulfillment_queue(ords, prods, pending_orders, nows) ==
    QueueLoop(ords, prods, pending_orders, nows, <<>>)

(***************************************************************************)
(* crud.create_order                                                       *)
(***************************************************************************)
create_order(product_id, amount_cents) ==
    /\ orders' = Append(orders, Order(Some(product_id), amount_cents, "pending", None))
    /\ last' = [op |-> "create_order", order_id |-> Len(orders) + 1]
    /\ UNCHANGED <<products, suggestions, webhook_secret, setup_tables>>

(***************************************************************************)
(* GET /api/fulfillment/orders/{order_id}/eligibility                      *)
(***************************************************************************)
check_fulfillment_eligibility(order_id) ==
    /\ last' = [op |-> "check_auto_fulfill_eligibility", order_id |-> order_id,
                result |-> check_auto_fulfill_eligibility(orders, products, order_id)]
    /\ UNCHANGED <<orders, products, suggestions, webhook_secret, setup_tables>>

(***************************************************************************)
(* POST /api/fulfillment/orders/{order_id}/auto-fulfill                    *)
(***************************************************************************)
auto_fulfill_order(order_id, now) ==
    LET out == auto_order_from_supplier(orders, products, order_id, now)
    IN  /\ orders' = out.orders
        /\ last' = [op |-> "auto_order_from_supplier", order_id |-> order_id,
                    result |-> out.result]
        /\ UNCHANGED <<products, suggestions, webhook_secret, setup_tables>>

(***************************************************************************)
(* POST /api/fulfillment/process-queue                                     *)
(***************************************************************************)
process_queue ==
    \E pending_orders \in PendingOrdersQuery(orders) :
        \E nows \in [1..Len(pending_orders) -> Timestamps] :
            LET out == process_fulfillment_queue(orders, products, pending_orders, nows)
            IN  /\ orders' = out.orders
                /\ last' = [op |-> "process_fulfillment_queue", results |-> out.results]
                /\ UNCHANGED <<products, suggestions, webhook_secret, setup_tables>>

(***************************************************************************)
(* PATCH /admin/orders/{order_id}/status.  The body is an                  *)
(* OrderStatusUpdate, whose validator runs before the handler: a value it  *)
(* refuses never reaches the handler (422).                                *)
(***************************************************************************)
SchemaOrderStatuses ==
    {"pending", "paid", "processing", "shipped", "delivered", "cancelled", "refunded"}

AdminValidStatuses ==
    {"pending", "paid", "processing", "shipped", "delivered", "fulfilled",
     "cancelled", "refunded", "abandoned"}

\* str.lower() on the status strings the requests are drawn from
Lower(s) ==
    CASE s = "PAID" -> "paid"
      [] s = "SHIPPED" -> "shipped"
      [] OTHER -> s

\* OrderStatusUpdate.validate_status: Some(validated value), None for ValueError
OrderStatusUpdate(status) ==
    IF Lower(status) \in SchemaOrderStatuses THEN Some(Lower(status)) ELSE None

admin_update_order_status(order_id, status) ==
    LET update == OrderStatusUpdate(status)
        call == [op |-> "admin.update_order_status", order_id |-> order_id]
    IN  /\ IF update = None
           THEN /\ last' = call @@ [code |-> 422]
                /\ UNCHANGED orders
           ELSE IF GetById(orders, order_id) = None
           THEN /\ last' = call @@ [code |-> 404]
                /\ UNCHANGED orders
           ELSE IF update[1] \notin AdminValidStatuses
           THEN /\ last' = call @@ [code |-> 400]
                /\ UNCHANGED orders
           ELSE /\ orders' = [orders EXCEPT ![order_id].status = update[1]]
                /\ last' = call @@ [code |-> 200, status |-> update[1]]
        /\ UNCHANGED <<products, suggestions, webhook_secret, setup_tables>>

(***************************************************************************)
(* A store with two products: one with supplier information, one without.  *)
(***************************************************************************)
SeedProducts ==
    << Product(<<"f", "a", "n">>, 1999, Some(SupplierUrl), Some("AliExpress"), "live"),
       Product(<<"g", "e", "l">>, 899, None, None, "testing") >>

OrderIds == 1..(Len(orders) + 1)

(***************************************************************************)
(* The auto-fulfillment service over orders placed through crud and moved  *)
(* between statuses by the admin endpoint.                                 *)
(***************************************************************************)
InitFulfil ==
    /\ orders = <<>>
    /\ products = SeedProducts
    /\ suggestions = <<>>
    /\ webhook_secret = FALSE
    /\ product_suppliers = <<>>
    /\ integrations = <<>>
    /\ fulfillment_rules = <<>>
    /\ product_views = <<>>
    /\ trend_products = <<>>
    /\ in_flight = <<>>
    /\ last = [op |-> "init"]

NextFulfil ==
    \/ /\ Len(orders) < MaxOrders
       /\ \E product_id \in 1..(Len(SeedProducts) + 1), amount_cents \in Amounts :
              create_order(product_id, amount_cents)
    \/ \E order_id \in OrderIds, status \in {"pending", "PAID", "archived"} :
           admin_update_order_status(order_id, status)
    \/ \E order_id \in OrderIds : check_fulfillment_eligibility(order_id)
    \/ \E order_id \in OrderIds, now \in Timestamps : auto_fulfill_order(order_id, now)
    \/ process_queue

SpecFulfil == InitFulfil /\ [][NextFulfil]_vars

(***************************************************************************)
(* POST /webhooks/stripe.  An event carries its type and the checkout      *)
(* session object: id (absent: None), amount_total and the product_slug of *)
(* its metadata (absent: None).  signature_ok tells whether               *)
(* stripe.Webhook.construct_event accepts payload and signature.           *)
(***************************************************************************)
SessionIds == {None, Some("cs_test_1")}
ProductSlugs == {None, Some(<<"f", "a", "n">>)}
AmountTotals == {1999, 2999}
EventTypes ==
    {"checkout.session.completed", "checkout.session.expired", "payment_intent.succeeded"}

Events ==
    [type : EventTypes, id : SessionIds, amount_total : AmountTotals,
     product_slug : ProductSlugs, signature_ok : BOOLEAN]

\* crud.get_product_by_slug: the id of the product with that slug, if any
get_product_by_slug(prods, slug) ==
    IF \E i \in DOMAIN prods : prods[i].slug = slug
    THEN Some(CHOOSE i \in DOMAIN prods :
                  /\ prods[i].slug = slug
                  /\ \A j \in DOMAIN prods : prods[j].slug = slug => i <= j)
    ELSE None

handle_checkout_completed_once(ords, prods, session) ==
    IF \E i \in DOMAIN ords : ords[i].stripe_session_id = session.id
    THEN ords
    ELSE Append(ords, Order(None, session.amount_total, "paid", session.id))

handle_checkout_completed(ords, prods, session) ==
    LET product == IF Truthy(session.product_slug)
                   THEN get_product_by_slug(prods, session.product_slug[1])
                   ELSE None
    IN  Append(ords, Order(product, session.amount_total, "paid", session.id))

\* .filter(stripe_session_id == session_id).first(): no ORDER BY, so any of
\* the matching rows; a None session_id compares as IS NULL
FirstBySessionId(ords, session_id) ==
    LET matching == {i \in DOMAIN ords : ords[i].stripe_session_id = session_id}
    IN  IF matching = {} THEN {None} ELSE {Some(i) : i \in matching}

handle_checkout_expired_all(ords, order) ==
    IF order = None
    THEN ords
    ELSE [i \in DOMAIN ords |->
            IF ords[i].stripe_session_id = ords[order[1]].stripe_session_id
            THEN [ords[i] EXCEPT !.status = "abandoned"]
            ELSE ords[i]]

\* the table after the handler found `order` (None: no such order)
handle_checkout_expired(ords, order) ==
    IF order = None THEN ords ELSE [ords EXCEPT ![order[1]].status = "abandoned"]

VerificationSkipped(secret, event) == FALSE

\* if STRIPE_WEBHOOK_SECRET: construct_event raises ValueError or
\* SignatureVerificationError, and the handler answers 400
VerificationFails(secret, event) == secret /\ ~event.signature_ok

stripe_webhook(event) ==
    LET call == [op |-> "stripe_webhook", type |-> event.type, session_id |-> event.id]
    IN  /\ IF VerificationFails(webhook_secret, event)
           THEN /\ last' = call @@ [code |-> 400]
                /\ UNCHANGED orders
           ELSE IF event.type = "checkout.session.completed"
           THEN /\ orders' = handle_checkout_completed(orders, products, event)
                /\ last' = call @@ [code |-> 200, amount_total |-> event.amount_total,
                                    product_slug |-> event.product_slug]
           ELSE IF event.type = "checkout.session.expired"
           THEN /\ \E order \in FirstBySessionId(orders, event.id) :
                       orders' = handle_checkout_expired(orders, order)
                /\ last' = call @@ [code |-> 200]
           ELSE /\ last' = [op |-> "stripe_webhook", type |-> event.type, code |-> 200]
                /\ UNCHANGED orders
        /\ UNCHANGED <<products, suggestions, webhook_secret, setup_tables>>

\* a body that is not JSON: construct_event raises ValueError (400); without
\* a secret json.loads raises JSONDecodeError, which nothing catches (500)
stripe_webhook_malformed ==
    /\ last' = [op |-> "stripe_webhook", type |-> "malformed",
                code |-> IF webhook_secret THEN 400 ELSE 500]
    /\ UNCHANGED <<orders, products, suggestions, webhook_secret, setup_tables>>

(***************************************************************************)
(* The Stripe webhook next to orders created through crud and statuses set *)
(* by the admin endpoint, with and without a configured webhook secret.    *)
(***************************************************************************)
InitWebhook ==
    /\ orders = <<>>
    /\ products = SeedProducts
    /\ suggestions = <<>>
    /\ webhook_secret \in BOOLEAN
    /\ product_suppliers = <<>>
    /\ integrations = <<>>
    /\ fulfillment_rules = <<>>
    /\ product_views = <<>>
    /\ trend_products = <<>>
    /\ in_flight = <<>>
    /\ last = [op |-> "init"]

NextWebhook ==
    \/ \E event \in Events :
           /\ event.type = "checkout.session.completed" => Len(orders) < MaxOrders
           /\ stripe_webhook(event)
    \/ stripe_webhook_malformed
    \/ /\ Len(orders) < MaxOrders
       /\ create_order(1, max_auto_order_value)
    \/ \E order_id \in OrderIds, status \in {"refunded"} :
           admin_update_order_status(order_id, status)

SpecWebhook == InitWebhook /\ [][NextWebhook]_vars

(***************************************************************************)
(* crud.update_order_status: ValueError for a status outside its list,     *)
(* None for an order that does not exist.                                  *)
(***************************************************************************)
CrudValidStatuses ==
    {"pending", "paid", "processing", "shipped", "delivered", "cancelled", "refunded"}

crud_update_order_status(order_id, status) ==
    LET call == [op |-> "crud.update_order_status", order_id |-> order_id]
    IN  /\ IF Lower(status) \notin CrudValidStatuses
           THEN /\ last' = call @@ [raised |-> "ValueError"]
                /\ UNCHANGED orders
           ELSE IF GetById(orders, order_id) = None
           THEN /\ last' = call @@ [returned |-> None]
                /\ UNCHANGED orders
           ELSE /\ orders' = [orders EXCEPT ![order_id].status = Lower(status)]
                /\ last' = call @@ [returned |-> Some(order_id)]
        /\ UNCHANGED <<products, suggestions, webhook_secret, setup_tables>>

(***************************************************************************)
(* AutoFulfillmentService.update_tracking and mark_delivered, behind       *)
(* POST /api/fulfillment/orders/{order_id}/tracking and /mark-delivered.   *)
(***************************************************************************)
TrackingNumbers == {"1Z999AA10123456784"}
TrackingUrls == {None, Some("https://track.example/1Z999AA10123456784")}

update_tracking_in_transit(ords, order_id, tracking_number, tracking_url, now) ==
    [ords EXCEPT ![order_id].tracking_number = Some(tracking_number),
                 ![order_id].tracking_url = IF Truthy(tracking_url) THEN tracking_url ELSE @,
                 ![order_id].status = "in_transit",
                 ![order_id].shipped_at = Some(now)]

update_tracking(ords, order_id, tracking_number, tracking_url, now) ==
    [ords EXCEPT ![order_id].tracking_number = Some(tracking_number),
                 ![order_id].tracking_url = IF Truthy(tracking_url) THEN tracking_url ELSE @,
                 ![order_id].status = "shipped",
                 ![order_id].shipped_at = Some(now)]

update_order_tracking(order_id, tracking_number, tracking_url, now) ==
    LET call == [op |-> "update_tracking", order_id |-> order_id]
    IN  /\ IF GetById(orders, order_id) = None
           THEN /\ last' = call @@ [code |-> 404]
                /\ UNCHANGED orders
           ELSE /\ orders' = update_tracking(orders, order_id, tracking_number,
                                             tracking_url, now)
                /\ last' = call @@ [code |-> 200]
        /\ UNCHANGED <<products, suggestions, webhook_secret, setup_tables>>

mark_delivered(ords, order_id, now) ==
    [ords EXCEPT ![order_id].status = "delivered",
                 ![order_id].delivered_at = Some(now)]

mark_order_delivered(order_id, now) ==
    LET call == [op |-> "mark_delivered", order_id |-> order_id]
    IN  /\ IF GetById(orders, order_id) = None
           THEN /\ last' = call @@ [code |-> 404]
                /\ UNCHANGED orders
           ELSE /\ orders' = mark_delivered(orders, order_id, now)
                /\ last' = call @@ [code |-> 200]
        /\ UNCHANGED <<products, suggestions, webhook_secret, setup_tables>>

(***************************************************************************)
(* The order lifecycle: every operation that creates an order or writes    *)
(* an order's status, from an empty orders table.                          *)
(***************************************************************************)
MaxLifecycleOrders == 1

RequestedStatuses == AdminValidStatuses \cup {"PAID", "archived"}

CrudRequestedStatuses == {"SHIPPED", "cancelled", "fulfilled", "archived"}

LifecycleEvents ==
    {e \in Events : /\ e.id = Some("cs_test_1")
                    /\ e.amount_total = 1999
                    /\ e.product_slug = Some(<<"f", "a", "n">>)
                    /\ e.signature_ok
                    /\ e.type # "payment_intent.succeeded"}

Init ==
    /\ orders = <<>>
    /\ products = SeedProducts
    /\ suggestions = <<>>
    /\ webhook_secret = FALSE
    /\ product_suppliers = <<>>
    /\ integrations = <<>>
    /\ fulfillment_rules = <<>>
    /\ product_views = <<>>
    /\ trend_products = <<>>
    /\ in_flight = <<>>
    /\ last = [op |-> "init"]

Next ==
    \/ /\ Len(orders) < MaxLifecycleOrders
       /\ create_order(1, max_auto_order_value)
    \/ \E event \in LifecycleEvents :
           /\ event.type = "checkout.session.completed" => Len(orders) < MaxLifecycleOrders
           /\ stripe_webhook(event)
    \/ \E order_id \in OrderIds, status \in RequestedStatuses :
           admin_update_order_status(order_id, status)
    \/ \E order_id \in DOMAIN orders, status \in CrudRequestedStatuses :
           crud_update_order_status(order_id, status)
    \/ \E order_id \in DOMAIN orders, now \in Timestamps : auto_fulfill_order(order_id, now)
    \/ process_queue
    \/ \E order_id \in DOMAIN orders, tracking_number \in TrackingNumbers, now \in Timestamps :
           update_order_tracking(order_id, tracking_number, None, now)
    \/ \E order_id \in DOMAIN orders, now \in Timestamps : mark_order_delivered(order_id, now)

Spec == Init /\ [][Next]_vars

(***************************************************************************)
(* Strings whose characters matter (hashtags, slugs) are sequences of      *)
(* one-character strings.                                                  *)
(***************************************************************************)
LowerChar(c) ==
    CASE c = "A" -> "a" [] c = "F" -> "f" [] c = "N" -> "n" [] OTHER -> c

\* str.lower()
StrLower(s) == [i \in DOMAIN s |-> LowerChar(s[i])]

\* str.replace(old, new) for a one-character old
ReplaceChar(s, old, new) == [i \in DOMAIN s |-> IF s[i] = old THEN new ELSE s[i]]

\* str.replace(old, "")
RECURSIVE RemoveChar(_, _)
RemoveChar(s, old) ==
    IF s = <<>> THEN <<>>
    ELSE IF Head(s) = old THEN RemoveChar(Tail(s), old)
    ELSE <<Head(s)>> \o RemoveChar(Tail(s), old)

DigitChars == <<"0", "1", "2", "3", "4", "5", "6", "7", "8", "9">>

\* str(n) for n >= 0
RECURSIVE IntToStr(_)
IntToStr(n) ==
    IF n < 10 THEN <<DigitChars[n + 1]>>
    ELSE IntToStr(n \div 10) \o <<DigitChars[(n % 10) + 1]>>

(***************************************************************************)
(* schemas.validate_slug: the value returned, or ValueError raised.        *)
(* re.match with a pattern ending in $ also accepts one trailing newline.  *)
(***************************************************************************)
SlugAlnum ==
    {"a", "b", "c", "d", "e", "f", "g", "h", "i", "j", "k", "l", "m", "n", "o", "p",
     "q", "r", "s", "t", "u", "v", "w", "x", "y", "z",
     "0", "1", "2", "3", "4", "5", "6", "7", "8", "9"}

\* [a-z0-9]+(?:-[a-z0-9]+)* over the whole of s
SlugGroups(s) ==
    /\ Len(s) >= 1
    /\ \A i \in DOMAIN s : s[i] \in SlugAlnum \cup {"-"}
    /\ s[1] # "-"
    /\ s[Len(s)] # "-"
    /\ \A i \in 1..(Len(s) - 1) : ~(s[i] = "-" /\ s[i + 1] = "-")

SlugPatternMatches(s) ==
    \/ SlugGroups(s)
    \/ /\ Len(s) >= 2
       /\ s[Len(s)] = "\n"
       /\ SlugGroups(SubSeq(s, 1, Len(s) - 1))

validate_slug(value) ==
    IF ~SlugPatternMatches(value) THEN [raised |-> "ValueError"]
    ELSE IF Len(value) < 3 THEN [raised |-> "ValueError"]
    ELSE IF Len(value) > 100 THEN [raised |-> "ValueError"]
    ELSE [returned |-> value]

\* schemas.validate_price
validate_price(value) ==
    IF value < 0 THEN [raised |-> "ValueError"]
    ELSE IF value > 1000000000 THEN [raised |-> "ValueError"]
    ELSE [returned |-> value]

(***************************************************************************)
(* POST /products: crud.create_product behind the ProductCreate schema.    *)
(* The unique index on products.slug refuses a second row with the slug.   *)
(***************************************************************************)
SlugTaken(prods, slug) == \E i \in DOMAIN prods : prods[i].slug = slug

create_product(slug, price_cents) ==
    LET call == [op |-> "create_product"]
    IN  /\ IF "raised" \in DOMAIN validate_slug(slug) \/ "raised" \in DOMAIN validate_price(price_cents)
           THEN /\ last' = call @@ [code |-> 422]
                /\ UNCHANGED products
           ELSE IF SlugTaken(products, slug)
           THEN /\ last' = call @@ [code |-> 500]
                /\ UNCHANGED products
           ELSE /\ products' = Append(products, Product(slug, price_cents, None, None, "testing"))
                /\ last' = call @@ [code |-> 200]
        /\ UNCHANGED <<orders, suggestions, webhook_secret, setup_tables>>

(***************************************************************************)
(* models.TrendSuggestion and the admin queue: approve_suggestion and      *)
(* reject_suggestion.                                                      *)
(***************************************************************************)
TrendSuggestion(hashtag) ==
    [hashtag               |-> hashtag,
     suggested_price_cents |-> None,
     status                |-> "pending",
     product_id            |-> None,
     trend_score           |-> 0,
     urgency_score         |-> 0]

\* suggestion.hashtag.lower().replace(" ", "-").replace("#", "")
SuggestionSlug(hashtag) == RemoveChar(ReplaceChar(StrLower(hashtag), " ", "-"), "#")

\* the slug of the product to create: f"{slug}-{suggestion.id}" if slug exists
ApprovedSlug(prods, hashtag, suggestion_id) ==
    LET slug == SuggestionSlug(hashtag)
    IN  IF SlugTaken(prods, slug) THEN slug \o <<"-">> \o IntToStr(suggestion_id) ELSE slug

\* (request and request.price_cents) or suggestion.suggested_price_cents or 1999
ApprovedPrice(request, suggestion) ==
    IF request # None /\ request[1].price_cents # None /\ request[1].price_cents[1] # 0
    THEN request[1].price_cents[1]
    ELSE IF suggestion.suggested_price_cents # None
            /\ suggestion.suggested_price_cents[1] # 0
    THEN suggestion.suggested_price_cents[1]
    ELSE 1999

AlreadyProcessedUnlessRejected(suggestion) == suggestion.status = "approved"

\* the test that answers 400 "Suggestion already processed"
AlreadyProcessed(suggestion) == suggestion.status # "pending"

approve_suggestion(suggestion_id, request) ==
    LET call == [op |-> "approve_suggestion", suggestion_id |-> suggestion_id]
    IN  /\ IF GetById(suggestions, suggestion_id) = None
           THEN /\ last' = call @@ [code |-> 404]
                /\ UNCHANGED <<products, suggestions>>
           ELSE IF AlreadyProcessed(suggestions[suggestion_id])
           THEN /\ last' = call @@ [code |-> 400]
                /\ UNCHANGED <<products, suggestions>>
           ELSE LET suggestion == suggestions[suggestion_id]
                    slug == ApprovedSlug(products, suggestion.hashtag, suggestion_id)
                    price == ApprovedPrice(request, suggestion)
                IN  IF SlugTaken(products, slug)
                    THEN \* db.flush() raises IntegrityError; the session is rolled back
                         /\ last' = call @@ [code |-> 500]
                         /\ UNCHANGED <<products, suggestions>>
                    ELSE /\ products' = Append(products,
                                [Product(slug, price, None, None, "testing") EXCEPT
                                     !.trend_score = suggestion.trend_score,
                                     !.urgency_score = suggestion.urgency_score])
                         /\ suggestions' = [suggestions EXCEPT
                                ![suggestion_id].status = "approved",
                                ![suggestion_id].product_id = Some(Len(products) + 1)]
                         /\ last' = call @@ [code |-> 200, product_id |-> Len(products) + 1]
        /\ UNCHANGED <<orders, webhook_secret, setup_tables>>

reject_suggestion(suggestion_id) ==
    LET call == [op |-> "reject_suggestion", suggestion_id |-> suggestion_id]
    IN  /\ IF GetById(suggestions, suggestion_id) = None
           THEN /\ last' = call @@ [code |-> 404]
                /\ UNCHANGED suggestions
           ELSE /\ suggestions' = [suggestions EXCEPT ![suggestion_id].status = "rejected"]
                /\ last' = call @@ [code |-> 200]
        /\ UNCHANGED <<orders, products, webhook_secret, setup_tables>>

(***************************************************************************)
(* The suggestion queue: a table of pending suggestions, reviewed by       *)
(* approve and reject while products are also created directly.            *)
(***************************************************************************)
MaxSuggestions == 2
MaxProducts == 1

Hashtags == {<<"#", "F", "a", "n">>, <<"f", "a", "n", " ", "2">>}

RequestedSlugs == {<<"f", "a", "n">>, <<"f", "a", "n", "-", "2">>, <<"F", "a", "n">>, <<"f", "a">>}

ApproveRequests == {None, Some([price_cents |-> Some(2499)])}

InitSuggest ==
    /\ orders = <<>>
    /\ products = <<>>
    /\ suggestions \in [1..MaxSuggestions -> {TrendSuggestion(h) : h \in Hashtags}]
    /\ webhook_secret = FALSE
    /\ product_suppliers = <<>>
    /\ integrations = <<>>
    /\ fulfillment_rules = <<>>
    /\ product_views = <<>>
    /\ trend_products = <<>>
    /\ in_flight = <<>>
    /\ last = [op |-> "init"]

NextSuggest ==
    \/ \E suggestion_id \in 1..(Len(suggestions) + 1), request \in ApproveRequests :
           approve_suggestion(suggestion_id, request)
    \/ \E suggestion_id \in 1..(Len(suggestions) + 1) : reject_suggestion(suggestion_id)
    \/ /\ Len(products) < MaxProducts
       /\ \E slug \in RequestedSlugs : create_product(slug, 1999)

SpecSuggest == InitSuggest /\ [][NextSuggest]_vars

(***************************************************************************)
(* schemas.OrderTrackingUpdate and POST /admin/orders/{order_id}/tracking  *)
(* (admin.add_order_tracking); crud.update_order_tracking.  Tracking       *)
(* numbers that pass the validator are sequences of characters.            *)
(***************************************************************************)
Whitespace == {" ", "\t", "\n"}

\* str.strip()
RECURSIVE Strip(_)
Strip(s) ==
    IF s = <<>> THEN s
    ELSE IF Head(s) \in Whitespace THEN Strip(Tail(s))
    ELSE IF s[Len(s)] \in Whitespace THEN Strip(SubSeq(s, 1, Len(s) - 1))
    ELSE s

validate_tracking_number(v) ==
    IF v = <<>> \/ Len(Strip(v)) < 5 THEN "ValueError"
    ELSE IF Len(v) > 100 THEN "ValueError"
    ELSE Strip(v)

add_order_tracking(order_id, tracking_number, tracking_url) ==
    LET call == [op |-> "add_order_tracking", order_id |-> order_id]
        number == validate_tracking_number(tracking_number)
    IN  /\ IF number = "ValueError"
           THEN /\ last' = call @@ [code |-> 422]
                /\ UNCHANGED orders
           ELSE IF GetById(orders, order_id) = None
           THEN /\ last' = call @@ [code |-> 404]
                /\ UNCHANGED orders
           ELSE /\ orders' = [orders EXCEPT
                        ![order_id].tracking_number = Some(number),
                        ![order_id].tracking_url =
                            IF Truthy(tracking_url) THEN tracking_url ELSE @]
                /\ last' = call @@ [code |-> 200]
        /\ UNCHANGED <<products, suggestions, webhook_secret, setup_tables>>

crud_update_order_tracking(order_id, tracking_number, tracking_url, shipped_at, now) ==
    LET call == [op |-> "crud.update_order_tracking", order_id |-> order_id]
    IN  /\ IF GetById(orders, order_id) = None
           THEN /\ last' = call @@ [returned |-> None]
                /\ UNCHANGED orders
           ELSE /\ orders' = [orders EXCEPT
                        ![order_id].tracking_number = Some(tracking_number),
                        ![order_id].tracking_url = tracking_url,
                        ![order_id].shipped_at =
                            IF shipped_at # None THEN shipped_at ELSE Some(now),
                        ![order_id].status = "shipped"]
                /\ last' = call @@ [returned |-> Some(order_id)]
        /\ UNCHANGED <<products, suggestions, webhook_secret, setup_tables>>

(***************************************************************************)
(* Shipping: orders are created and then only the operations that write    *)
(* tracking fields, shipped_at or delivered_at act on them.  Here a status *)
(* leaves "shipped" only for "delivered".                                  *)
(***************************************************************************)
RequestedTrackingNumbers ==
    {<<" ", "1", "Z", "9", "9", "9">>, <<"1", "Z", " ", " ", " ">>}

CarrierTrackingNumbers == {<<"1", "Z", "9", "9", "9">>}

InitTracking ==
    /\ orders = <<>>
    /\ products = SeedProducts
    /\ suggestions = <<>>
    /\ webhook_secret = FALSE
    /\ product_suppliers = <<>>
    /\ integrations = <<>>
    /\ fulfillment_rules = <<>>
    /\ product_views = <<>>
    /\ trend_products = <<>>
    /\ in_flight = <<>>
    /\ last = [op |-> "init"]

NextTracking ==
    \/ /\ Len(orders) < MaxLifecycleOrders
       /\ create_order(1, max_auto_order_value)
    \/ \E order_id \in OrderIds, tracking_number \in RequestedTrackingNumbers,
          tracking_url \in TrackingUrls :
           add_order_tracking(order_id, tracking_number, tracking_url)
    \/ \E order_id \in OrderIds, tracking_number \in CarrierTrackingNumbers,
          tracking_url \in TrackingUrls, now \in Timestamps :
           update_order_tracking(order_id, tracking_number, tracking_url, now)
    \/ \E order_id \in OrderIds, tracking_number \in CarrierTrackingNumbers,
          now \in Timestamps :
           crud_update_order_tracking(order_id, tracking_number, None, None, now)
    \/ \E order_id \in OrderIds, now \in Timestamps : mark_order_delivered(order_id, now)
    \/ \E order_id \in OrderIds, now \in Timestamps : auto_fulfill_order(order_id, now)

SpecTracking == InitTracking /\ [][NextTracking]_vars

(***************************************************************************)
(* models.ProductSupplier and the product-supplier link endpoints of       *)
(* fulfillment.py.  Rows are deleted, so the table is the sequence of its  *)
(* live rows.                                                              *)
(***************************************************************************)
ProductSupplier(link, total_cost_cents) ==
    [product_id           |-> link.product_id,
     supplier_id          |-> link.supplier_id,
     supplier_price_cents |-> link.supplier_price_cents,
     shipping_cost_cents  |-> link.shipping_cost_cents,
     total_cost_cents     |-> total_cost_cents,
     is_primary           |-> link.is_primary]

UnsetPrimariesAfterFirst(rows, product_id) ==
    [i \in DOMAIN rows |->
        IF rows[i].product_id = product_id /\ i > 1
        THEN [rows[i] EXCEPT !.is_primary = FALSE]
        ELSE rows[i]]

\* query(ProductSupplier).filter(product_id == product_id).update({"is_primary": False})
UnsetPrimaries(rows, product_id) ==
    [i \in DOMAIN rows |->
        IF rows[i].product_id = product_id
        THEN [rows[i] EXCEPT !.is_primary = FALSE]
        ELSE rows[i]]

\* supplier_price_cents + (shipping_cost_cents or 0), or None without a price
TotalCost(link) ==
    IF link.supplier_price_cents = None THEN None
    ELSE Some(link.supplier_price_cents[1]
              + (IF link.shipping_cost_cents = None THEN 0
                 ELSE link.shipping_cost_cents[1]))

link_product_supplier(product_id, link) ==
    LET call == [op |-> "link_product_supplier", product_id |-> product_id]
    IN  /\ IF link.product_id # product_id
           THEN /\ last' = call @@ [code |-> 400]
                /\ UNCHANGED product_suppliers
           ELSE /\ product_suppliers' =
                      Append(IF link.is_primary
                             THEN UnsetPrimaries(product_suppliers, product_id)
                             ELSE product_suppliers,
                             ProductSupplier(link, TotalCost(link)))
                /\ last' = call @@ [code |-> 200]
        /\ UNCHANGED <<orders, products, suggestions, webhook_secret,
                       integrations, fulfillment_rules, product_views, trend_products,
                       in_flight>>

RemoveAt(rows, i) == SubSeq(rows, 1, i - 1) \o SubSeq(rows, i + 1, Len(rows))

\* the rows .first() may return: any row of the product and supplier
LinksOf(rows, product_id, supplier_id) ==
    {i \in DOMAIN rows : /\ rows[i].product_id = product_id
                         /\ rows[i].supplier_id = supplier_id}

unlink_product_supplier(product_id, supplier_id) ==
    LET call == [op |-> "unlink_product_supplier", product_id |-> product_id]
    IN  /\ IF LinksOf(product_suppliers, product_id, supplier_id) = {}
           THEN /\ last' = call @@ [code |-> 404]
                /\ UNCHANGED product_suppliers
           ELSE /\ \E i \in LinksOf(product_suppliers, product_id, supplier_id) :
                       product_suppliers' = RemoveAt(product_suppliers, i)
                /\ last' = call @@ [code |-> 200]
        /\ UNCHANGED <<orders, products, suggestions, webhook_secret,
                       integrations, fulfillment_rules, product_views, trend_products,
                       in_flight>>

(***************************************************************************)
(* Supplier links: any sequence of link and unlink requests.               *)
(***************************************************************************)
MaxLinks == 3

LinkProductIds == {1, 2}
LinkSupplierIds == {1, 2}

LinkRequests ==
    [product_id           : LinkProductIds,
     supplier_id          : LinkSupplierIds,
     supplier_price_cents : {None, Some(500)},
     shipping_cost_cents  : {Some(100)},
     is_primary           : BOOLEAN]

InitLinks ==
    /\ orders = <<>>
    /\ products = SeedProducts
    /\ suggestions = <<>>
    /\ webhook_secret = FALSE
    /\ product_suppliers = <<>>
    /\ integrations = <<>>
    /\ fulfillment_rules = <<>>
    /\ product_views = <<>>
    /\ trend_products = <<>>
    /\ in_flight = <<>>
    /\ last = [op |-> "init"]

NextLinks ==
    \/ \E product_id \in LinkProductIds, link \in LinkRequests :
           /\ Len(product_suppliers) < MaxLinks
           /\ link_product_supplier(product_id, link)
    \/ \E product_id \in LinkProductIds, supplier_id \in LinkSupplierIds :
           unlink_product_supplier(product_id, supplier_id)

SpecLinks == InitLinks /\ [][NextLinks]_vars

(***************************************************************************)
(* models.Integration and integration_api.py: connect_integration,         *)
(* update_integration and disconnect_integration.                          *)
(***************************************************************************)
SUPPORTED_PLATFORMS ==
    <<[id |-> "shopify",     status |-> "available"],
      [id |-> "woocommerce", status |-> "available"],
      [id |-> "tiktok_shop", status |-> "coming_soon"],
      [id |-> "amazon",      status |-> "planned"],
      [id |-> "ebay",        status |-> "planned"]>>

\* [p["id"] for p in SUPPORTED_PLATFORMS if p["status"] == "available"]
AvailablePlatformIds ==
    {SUPPORTED_PLATFORMS[i].id : i \in {j \in DOMAIN SUPPORTED_PLATFORMS :
                                          SUPPORTED_PLATFORMS[j].status = "available"}}

Integration(platform, store_url) ==
    [platform           |-> platform,
     store_url          |-> Some(store_url),
     is_active          |-> TRUE,
     is_connected       |-> FALSE,
     sync_status        |-> "pending",
     sync_error         |-> None,
     api_key            |-> None,
     api_secret         |-> None,
     access_token       |-> None,
     auto_sync_products |-> TRUE]

\* an Optional[str] = None field of the request body
Optional(request, key) == IF key \in DOMAIN request THEN request[key] ELSE None

\* Integration(..., api_key=request.api_key, api_secret=request.api_secret,
\*             access_token=request.access_token, ...)
WithCredentials(row, request) ==
    [row EXCEPT !.api_key      = Optional(request, "api_key"),
                !.api_secret   = Optional(request, "api_secret"),
                !.access_token = Optional(request, "access_token")]

\* the active rows of the platform and store
ActiveIntegrations(rows, platform, store_url) ==
    {i \in DOMAIN rows : /\ rows[i].platform = platform
                         /\ rows[i].store_url = Some(store_url)
                         /\ rows[i].is_active}

connect_integration(request) ==
    LET call == [op |-> "connect_integration"]
    IN  /\ IF request.platform \notin AvailablePlatformIds
           THEN /\ last' = call @@ [code |-> 400, detail |-> "not available"]
                /\ UNCHANGED integrations
           ELSE IF ActiveIntegrations(integrations, request.platform,
                                      request.store_url) # {}
           THEN /\ last' = call @@ [code |-> 400, detail |-> "already connected"]
                /\ UNCHANGED integrations
           ELSE /\ integrations' = Append(integrations,
                        WithCredentials(Integration(request.platform, request.store_url),
                                        request))
                /\ last' = call @@ [code |-> 200, id |-> Len(integrations) + 1]
        /\ UNCHANGED <<orders, products, suggestions, webhook_secret,
                       product_suppliers, fulfillment_rules, product_views, trend_products,
                       in_flight>>

\* for key, value in request.dict(exclude_unset=True).items(): setattr(...)
SetAttrs(row, update_data) ==
    [key \in DOMAIN row |->
        IF key \in DOMAIN update_data THEN update_data[key] ELSE row[key]]

update_integration(integration_id, update_data) ==
    LET call == [op |-> "update_integration", integration_id |-> integration_id]
    IN  /\ IF GetById(integrations, integration_id) = None
           THEN /\ last' = call @@ [code |-> 404]
                /\ UNCHANGED integrations
           ELSE /\ integrations' = [integrations EXCEPT
                        ![integration_id] = SetAttrs(@, update_data)]
                /\ last' = call @@ [code |-> 200]
        /\ UNCHANGED <<orders, products, suggestions, webhook_secret,
                       product_suppliers, fulfillment_rules, product_views, trend_products,
                       in_flight>>

disconnect_integration(integration_id) ==
    LET call == [op |-> "disconnect_integration", integration_id |-> integration_id]
    IN  /\ IF GetById(integrations, integration_id) = None
           THEN /\ last' = call @@ [code |-> 404]
                /\ UNCHANGED integrations
           ELSE /\ integrations' = [integrations EXCEPT
                        ![integration_id].is_active = FALSE,
                        ![integration_id].is_connected = FALSE]
                /\ last' = call @@ [code |-> 200]
        /\ UNCHANGED <<orders, products, suggestions, webhook_secret,
                       product_suppliers, fulfillment_rules, product_views, trend_products,
                       in_flight>>

(***************************************************************************)
(* Store integrations: any sequence of connect, update and disconnect      *)
(* requests.                                                               *)
(***************************************************************************)
MaxIntegrations == 2

StoreUrls == {"a.myshopify.com", "b.myshopify.com"}

ConnectRequests == [platform : {"shopify", "tiktok_shop"}, store_url : StoreUrls]

\* the fields a PATCH body sets: none, store_url, or auto_sync_products
IntegrationUpdates ==
    {<<>>}
        \cup {[key \in {"store_url"} |-> Some(url)] : url \in StoreUrls}
        \cup {[key \in {"auto_sync_products"} |-> FALSE]}

InitIntegrations ==
    /\ orders = <<>>
    /\ products = SeedProducts
    /\ suggestions = <<>>
    /\ webhook_secret = FALSE
    /\ product_suppliers = <<>>
    /\ integrations = <<>>
    /\ fulfillment_rules = <<>>
    /\ product_views = <<>>
    /\ trend_products = <<>>
    /\ in_flight = <<>>
    /\ last = [op |-> "init"]

NextIntegrations ==
    \/ \E request \in ConnectRequests :
           /\ Len(integrations) < MaxIntegrations
           /\ connect_integration(request)
    \/ \E integration_id \in 1..(Len(integrations) + 1), update_data \in IntegrationUpdates :
           update_integration(integration_id, update_data)
    \/ \E integration_id \in 1..(Len(integrations) + 1) :
           disconnect_integration(integration_id)

SpecIntegrations == InitIntegrations /\ [][NextIntegrations]_vars

(***************************************************************************)
(* FulfillmentRulesEngine: the in-memory rule list and evaluate_order.     *)
(* A rule is a dict; the rule list belongs to one engine object.           *)
(***************************************************************************)
_load_default_rules ==
    <<[id |-> "auto_fulfill_low_value", name |-> "Auto-fulfill low value orders",
       condition |-> "order_value < 5000", action |-> "auto_fulfill",
       enabled |-> TRUE, priority |-> 1],
      [id |-> "hold_high_value", name |-> "Hold high value orders for review",
       condition |-> "order_value >= 10000", action |-> "hold_for_review",
       enabled |-> TRUE, priority |-> 2],
      [id |-> "hold_first_time", name |-> "Hold first-time customer orders",
       condition |-> "is_first_order", action |-> "hold_for_review",
       enabled |-> FALSE, priority |-> 3]>>

\* one FulfillmentRule row as a rule the evaluator would understand
RuleFromRow(row) ==
    [id |-> "db_rule", name |-> row.name,
     condition |-> IF row.condition_operator = "lt" THEN "order_value < 5000"
                   ELSE "order_value >= 10000",
     action |-> row.action, enabled |-> row.is_enabled, priority |-> row.priority]

EngineRulesWithTable(rule_rows) ==
    _load_default_rules
        \o [i \in 1..Len(SelectSeq(rule_rows, LAMBDA r : r # None)) |->
               RuleFromRow(SelectSeq(rule_rows, LAMBDA r : r # None)[i][1])]

\* FulfillmentRulesEngine.__init__: self.rules, whatever the database holds
EngineRules(rule_rows) == _load_default_rules

\* sorted(rules, key=lambda r: r["priority"]): stable
InsertByPriority(sorted, rule) ==
    LET k == Cardinality({i \in DOMAIN sorted : sorted[i].priority <= rule.priority})
    IN  SubSeq(sorted, 1, k) \o <<rule>> \o SubSeq(sorted, k + 1, Len(sorted))

RECURSIVE SortedByPriority(_)
SortedByPriority(rules) ==
    IF rules = <<>> THEN <<>>
    ELSE InsertByPriority(SortedByPriority(SubSeq(rules, 1, Len(rules) - 1)),
                          rules[Len(rules)])

ConditionHoldsInclusive(condition, amount_cents) ==
    CASE condition = "order_value < 5000" -> amount_cents <= 5000
      [] condition = "order_value >= 10000" -> amount_cents >= 10000
      [] OTHER -> FALSE

\* the two condition strings the evaluator interprets
ConditionHolds(condition, amount_cents) ==
    CASE condition = "order_value < 5000" -> amount_cents < 5000
      [] condition = "order_value >= 10000" -> amount_cents >= 10000
      [] OTHER -> FALSE

\* the for loop of evaluate_order over the sorted rules
RECURSIVE EvaluateLoop(_, _, _, _)
EvaluateLoop(rules, amount_cents, matched_rules, recommended_action) ==
    IF rules = <<>>
    THEN [matched_rules |-> matched_rules, action |-> recommended_action]
    ELSE LET rule == Head(rules)
         IN  IF rule.enabled /\ ConditionHolds(rule.condition, amount_cents)
             THEN EvaluateLoop(Tail(rules), amount_cents,
                               Append(matched_rules, rule), rule.action)
             ELSE EvaluateLoop(Tail(rules), amount_cents,
                               matched_rules, recommended_action)

evaluate_order(ords, rules, order_id) ==
    IF GetById(ords, order_id) = None
    THEN [action |-> "error", message |-> "Order not found"]
    ELSE LET order == ords[order_id]
             out == EvaluateLoop(SortedByPriority(rules), order.amount_cents,
                                 <<>>, "process")
         IN  [order_id      |-> order_id,
              order_value   |-> order.amount_cents,
              action        |-> out.action,
              matched_rules |-> [i \in DOMAIN out.matched_rules |->
                                    out.matched_rules[i].name]]

\* dict.update(updates)
DictUpdate(rule, updates) ==
    [key \in DOMAIN rule |-> IF key \in DOMAIN updates THEN updates[key] ELSE rule[key]]

FirstWithId(rules, rule_id) ==
    LET found == {i \in DOMAIN rules : rules[i].id = rule_id}
    IN  IF found = {} THEN 0 ELSE CHOOSE i \in found : \A j \in found : i <= j

update_rule(rules, rule_id, updates) ==
    IF FirstWithId(rules, rule_id) = 0 THEN rules
    ELSE [rules EXCEPT ![FirstWithId(rules, rule_id)] = DictUpdate(@, updates)]

toggle_rule(rules, rule_id) ==
    IF FirstWithId(rules, rule_id) = 0 THEN rules
    ELSE [rules EXCEPT ![FirstWithId(rules, rule_id)].enabled = ~@]

\* a caller's update_rule and toggle_rule calls on one engine, in order
RECURSIVE ApplyEngineCalls(_, _)
ApplyEngineCalls(rules, calls) ==
    IF calls = <<>> THEN rules
    ELSE LET call == Head(calls)
         IN  ApplyEngineCalls(IF call.method = "toggle_rule"
                              THEN toggle_rule(rules, call.rule_id)
                              ELSE update_rule(rules, call.rule_id, call.updates),
                              Tail(calls))

\* create_fulfillment_rules_engine(db), then the calls, then evaluate_order
engine_evaluate_order(calls, order_id) ==
    /\ last' = [op |-> "engine.evaluate_order", order_id |-> order_id,
                result |-> evaluate_order(orders,
                               ApplyEngineCalls(EngineRules(fulfillment_rules), calls),
                               order_id)]
    /\ UNCHANGED <<orders, products, suggestions, webhook_secret, setup_tables>>

\* POST /api/fulfillment/evaluate/{order_id}
evaluate_order_rules(order_id) ==
    /\ last' = [op |-> "evaluate_order_rules", order_id |-> order_id,
                result |-> evaluate_order(orders, EngineRules(fulfillment_rules),
                                          order_id)]
    /\ UNCHANGED <<orders, products, suggestions, webhook_secret, setup_tables>>

(***************************************************************************)
(* models.FulfillmentRule and the rule endpoints of fulfillment.py.  Row i *)
(* has id i; a deleted row leaves None at its id.                          *)
(***************************************************************************)
FulfillmentRule(rule) ==
    [name               |-> rule.name,
     condition_type     |-> rule.condition_type,
     condition_operator |-> rule.condition_operator,
     condition_value    |-> rule.condition_value,
     action             |-> rule.action,
     priority           |-> rule.priority,
     is_enabled         |-> rule.is_enabled]

RuleById(rows, rule_id) ==
    IF rule_id \in DOMAIN rows THEN rows[rule_id] ELSE None

create_fulfillment_rule(rule) ==
    /\ fulfillment_rules' = Append(fulfillment_rules, Some(FulfillmentRule(rule)))
    /\ last' = [op |-> "create_fulfillment_rule", code |-> 200,
                id |-> Len(fulfillment_rules) + 1]
    /\ UNCHANGED <<orders, products, suggestions, webhook_secret,
                   product_suppliers, integrations, product_views, trend_products,
                       in_flight>>

update_fulfillment_rule(rule_id, updates) ==
    LET call == [op |-> "update_fulfillment_rule", rule_id |-> rule_id]
    IN  /\ IF RuleById(fulfillment_rules, rule_id) = None
           THEN /\ last' = call @@ [code |-> 404]
                /\ UNCHANGED fulfillment_rules
           ELSE /\ fulfillment_rules' = [fulfillment_rules EXCEPT
                        ![rule_id] = Some(FulfillmentRule(updates))]
                /\ last' = call @@ [code |-> 200]
        /\ UNCHANGED <<orders, products, suggestions, webhook_secret,
                       product_suppliers, integrations, product_views, trend_products,
                       in_flight>>

toggle_fulfillment_rule(rule_id) ==
    LET call == [op |-> "toggle_fulfillment_rule", rule_id |-> rule_id]
    IN  /\ IF RuleById(fulfillment_rules, rule_id) = None
           THEN /\ last' = call @@ [code |-> 404]
                /\ UNCHANGED fulfillment_rules
           ELSE /\ fulfillment_rules' = [fulfillment_rules EXCEPT
                        ![rule_id] = Some([@[1] EXCEPT !.is_enabled = ~@])]
                /\ last' = call @@ [code |-> 200,
                                    is_enabled |-> ~fulfillment_rules[rule_id][1].is_enabled]
        /\ UNCHANGED <<orders, products, suggestions, webhook_secret,
                       product_suppliers, integrations, product_views, trend_products,
                       in_flight>>

delete_fulfillment_rule(rule_id) ==
    LET call == [op |-> "delete_fulfillment_rule", rule_id |-> rule_id]
    IN  /\ IF RuleById(fulfillment_rules, rule_id) = None
           THEN /\ last' = call @@ [code |-> 404]
                /\ UNCHANGED fulfillment_rules
           ELSE /\ fulfillment_rules' = [fulfillment_rules EXCEPT ![rule_id] = None]
                /\ last' = call @@ [code |-> 200]
        /\ UNCHANGED <<orders, products, suggestions, webhook_secret,
                       product_suppliers, integrations, product_views, trend_products,
                       in_flight>>

(***************************************************************************)
(* Fulfillment rules: orders of several values, rule rows created,         *)
(* replaced, toggled and deleted, and evaluations in between.              *)
(***************************************************************************)
MaxRules == 1
MaxRuleOrders == 1

OrderValues == {4999, 5000, 9999, 10000}

RuleRequests ==
    {[name |-> "Reject cheap orders", condition_type |-> "order_value",
      condition_operator |-> "lt", condition_value |-> "5000", action |-> "reject",
      priority |-> 5, is_enabled |-> TRUE],
     [name |-> "Notify on large orders", condition_type |-> "order_value",
      condition_operator |-> "gte", condition_value |-> "10000", action |-> "notify",
      priority |-> 0, is_enabled |-> TRUE]}

\* calls on one engine before it evaluates: toggles and updates
Toggle(rule_id) == [method |-> "toggle_rule", rule_id |-> rule_id]
Update(rule_id, updates) == [method |-> "update_rule", rule_id |-> rule_id, updates |-> updates]

EngineSessions ==
    {<<>>,
     <<Toggle("hold_first_time")>>,
     <<Toggle("auto_fulfill_low_value")>>,
     <<Toggle("no_such_rule")>>,
     <<Toggle("hold_high_value"), Toggle("hold_high_value")>>,
     <<Update("hold_high_value", [condition |-> "order_value < 5000"])>>,
     <<Update("hold_high_value", [condition |-> "order_value < 5000"]),
       Update("auto_fulfill_low_value", [priority |-> 2])>>,
     <<Update("hold_high_value", [condition |-> "order_value < 5000"]),
       Update("auto_fulfill_low_value", [priority |-> 3])>>}

InitRules ==
    /\ orders = <<>>
    /\ products = SeedProducts
    /\ suggestions = <<>>
    /\ webhook_secret = FALSE
    /\ product_suppliers = <<>>
    /\ integrations = <<>>
    /\ fulfillment_rules = <<>>
    /\ product_views = <<>>
    /\ trend_products = <<>>
    /\ in_flight = <<>>
    /\ last = [op |-> "init"]

NextRules ==
    \/ \E amount_cents \in OrderValues :
           /\ Len(orders) < MaxRuleOrders
           /\ create_order(1, amount_cents)
    \/ \E rule \in RuleRequests :
           /\ Len(fulfillment_rules) < MaxRules
           /\ create_fulfillment_rule(rule)
    \/ \E rule_id \in 1..(Len(fulfillment_rules) + 1), updates \in RuleRequests :
           update_fulfillment_rule(rule_id, updates)
    \/ \E rule_id \in 1..(Len(fulfillment_rules) + 1) : toggle_fulfillment_rule(rule_id)
    \/ \E rule_id \in 1..(Len(fulfillment_rules) + 1) : delete_fulfillment_rule(rule_id)
    \/ \E order_id \in OrderIds : evaluate_order_rules(order_id)
    \/ \E order_id \in OrderIds, calls \in EngineSessions :
           engine_evaluate_order(calls, order_id)

SpecRules == InitRules /\ [][NextRules]_vars

(***************************************************************************)
(* services/ai_service.py: AIService.  The external call either raises or  *)
(* answers with a message; a function's outcome is [returned |-> value] or *)
(* [raised |-> exception class].  Scores are held in tenths.               *)
(***************************************************************************)
\* anthropic.APIError and its subclasses
APIErrors == {"APIError", "APIConnectionError", "RateLimitError"}

\* a JSON value by type
JNumber(v) == [t |-> "number", number |-> v]
JString(v) == [t |-> "string", string |-> v]
JNull == [t |-> "null"]

\* float(x) in tenths: [ok |-> tenths] or [error |-> exception class]
Float(x) ==
    CASE x.t = "number" -> [ok |-> 10 * x.number]
      [] x.t = "string" -> IF x.string = "85" THEN [ok |-> 850] ELSE [error |-> "ValueError"]
      [] OTHER -> [error |-> "TypeError"]

Min(a, b) == IF a < b THEN a ELSE b
Max(a, b) == IF a > b THEN a ELSE b

\* round(n / d) to the nearest integer, ties to even (n >= 0, d > 0)
RoundHalfEven(n, d) ==
    LET q == n \div d
        r == n % d
    IN  IF 2 * r < d THEN q
        ELSE IF 2 * r > d THEN q + 1
        ELSE IF q % 2 = 0 THEN q ELSE q + 1

_heuristic_score(views, growth_rate, engagement, video_count) ==
    LET \* the three capped parts over the common denominator 20000, in tenths
        view_score == Min(500 * 20000, views)
        engagement_score == Min(300 * 20000, 6 * engagement)
        velocity_score == Min(200 * 20000, 40000 * growth_rate)
        urgency_base == IF growth_rate > 70 THEN 80
                        ELSE IF growth_rate > 40 THEN 60 ELSE 40
        urgency_modifier == IF video_count > 100000 THEN 10
                            ELSE IF video_count > 10000 THEN 5 ELSE -10
    IN  [trend_score   |-> RoundHalfEven(view_score + engagement_score + velocity_score,
                                         20000),
         urgency_score |-> 10 * Min(100, Max(0, urgency_base + urgency_modifier)),
         reasoning     |-> "Scored using heuristic algorithm (AI unavailable)"]

\* result.get(key, default) on a parsed JSON object
DictGet(fields, key, default) == IF key \in DOMAIN fields THEN fields[key] ELSE default

ScoreTrendCatchesException(exception) == TRUE

\* except anthropic.APIError
ScoreTrendCatches(exception) == exception \in APIErrors

score_trend(client, response, views, growth_rate, engagement, video_count) ==
    LET fallback == [returned |-> _heuristic_score(views, growth_rate, engagement,
                                                   video_count)]
        Escapes(exception) ==
            IF ScoreTrendCatches(exception) THEN fallback ELSE [raised |-> exception]
    IN  IF ~client THEN fallback
        ELSE IF response.kind = "raises" THEN Escapes(response.exception)
        ELSE IF response.blocks = 0 THEN Escapes("IndexError")
        ELSE IF response.json = "invalid" THEN fallback
        ELSE IF response.json = "array" THEN Escapes("AttributeError")
        ELSE LET trend == Float(DictGet(response.fields, "trend_score", JNumber(50)))
                 urgency == Float(DictGet(response.fields, "urgency_score", JNumber(50)))
             IN  IF "error" \in DOMAIN trend THEN Escapes(trend.error)
                 ELSE IF "error" \in DOMAIN urgency THEN Escapes(urgency.error)
                 ELSE [returned |->
                          [trend_score   |-> Min(1000, Max(0, trend.ok)),
                           urgency_score |-> Min(1000, Max(0, urgency.ok)),
                           reasoning     |-> "from the model"]]

\* AIService._parse_json_response: the parsed value, {} when it is not JSON
_parse_json_response(response) ==
    IF response.json = "invalid" THEN [json |-> "object", fields |-> <<>>]
    ELSE response

\* int(supplier_cost_cents * (1 + target_margin)), the margin in percent
BasePrice(supplier_cost_cents, margin_percent) ==
    (supplier_cost_cents * (100 + margin_percent)) \div 100

SuggestedPriceInclusive(base_price) ==
    IF base_price <= 1000 THEN ((base_price \div 100) * 100) + 99
    ELSE IF base_price <= 5000 THEN ((base_price \div 500) * 500) + 499
    ELSE ((base_price \div 1000) * 1000) + 999

\* the psychological price point of _heuristic_pricing
SuggestedPrice(base_price) ==
    IF base_price < 1000 THEN ((base_price \div 100) * 100) + 99
    ELSE IF base_price < 5000 THEN ((base_price \div 500) * 500) + 499
    ELSE ((base_price \div 1000) * 1000) + 999

_heuristic_pricing(supplier_cost_cents, margin_percent) ==
    [suggested_price_cents |-> SuggestedPrice(BasePrice(supplier_cost_cents,
                                                        margin_percent)),
     min_price_cents       |-> (supplier_cost_cents * 13) \div 10,
     max_price_cents       |-> (supplier_cost_cents * 35) \div 10,
     confidence            |-> "0.6",
     reasoning             |-> "Calculated using standard markup formula with psychological pricing adjustment"]

recommend_pricing(client, response, supplier_cost_cents, margin_percent) ==
    LET fallback == [returned |-> _heuristic_pricing(supplier_cost_cents, margin_percent)]
    IN  IF ~client THEN fallback
        ELSE IF response.kind = "raises" THEN fallback
        ELSE IF response.blocks = 0 THEN fallback
        ELSE LET result == _parse_json_response(response)
             IN  IF result.json = "array" THEN fallback
                 ELSE [returned |->
                          [suggested_price_cents |->
                               DictGet(result.fields, "suggested_price_cents",
                                       BasePrice(supplier_cost_cents, margin_percent)),
                           min_price_cents |->
                               DictGet(result.fields, "min_price_cents",
                                       supplier_cost_cents),
                           max_price_cents |->
                               DictGet(result.fields, "max_price_cents",
                                       supplier_cost_cents * 4),
                           confidence |-> "0.7",
                           reasoning |-> "from the model"]]

_fallback_description(product_name) ==
    [success |-> TRUE, content |-> <<"Introducing the ", product_name>>,
     variations |-> <<>>, tokens_used |-> 0]

generate_product_description(client, response, product_name) ==
    LET fallback == [returned |-> _fallback_description(product_name)]
    IN  IF ~client THEN fallback
        ELSE IF response.kind = "raises" THEN fallback
        ELSE IF response.blocks = 0 THEN fallback
        ELSE LET result == _parse_json_response(response)
             IN  IF result.json = "array" THEN fallback
                 ELSE [returned |->
                          [success |-> TRUE,
                           content |-> DictGet(result.fields, "description", ""),
                           variations |-> <<>>,
                           tokens_used |-> response.tokens]]

_fallback_ad_copy(product_name) ==
    [headline |-> <<"Get Your ", product_name, " Today!">>, cta |-> "Shop Now"]

generate_ad_copy(client, response, product_name) ==
    LET fallback == [returned |-> _fallback_ad_copy(product_name)]
    IN  IF ~client THEN fallback
        ELSE IF response.kind = "raises" THEN fallback
        ELSE IF response.blocks = 0 THEN fallback
        ELSE LET result == _parse_json_response(response)
             IN  IF result.json = "array" THEN fallback
                 ELSE [returned |->
                          [headline |-> DictGet(result.fields, "headline", ""),
                           cta |-> DictGet(result.fields, "cta", "Shop Now")]]

(***************************************************************************)
(* One AIService call per step: the function, its arguments, what the      *)
(* external call did, and the outcome.  calls counts the attempts of the   *)
(* external call made for the step.                                        *)
(***************************************************************************)
Raises(exception) == [kind |-> "raises", exception |-> exception]
Reply(json, fields) ==
    [kind |-> "reply", blocks |-> 1, json |-> json, fields |-> fields, tokens |-> 120]
EmptyReply == [kind |-> "reply", blocks |-> 0]

CallFailures ==
    {Raises(e) : e \in {"APIConnectionError", "RateLimitError", "RuntimeError"}}
        \cup {EmptyReply, Reply("invalid", <<>>), Reply("array", <<>>)}

ScoreResponses ==
    CallFailures
        \cup {Reply("object", [trend_score |-> s, urgency_score |-> JNumber(40)]) :
                 s \in {JNumber(85), JNumber(250), JString("85"), JString("high"), JNull}}
        \cup {Reply("object", <<>>)}

PricingResponses ==
    CallFailures \cup {Reply("object", [suggested_price_cents |-> 1999]),
                       Reply("object", <<>>)}

TextResponses ==
    CallFailures \cup {Reply("object", [description |-> "Glows in the dark",
                                        headline |-> "Glow up"]),
                       Reply("object", <<>>)}

SupplierCosts == {0, 1, 500, 599, 899, 2500, 3334, 6000}
MarginPercents == {0, 50, 100}
TrendViews == {0, 5000000, 20000000}
TrendGrowthRates == {30, 50, 80}
TrendVideoCounts == {5000, 50000, 200000}
ProductNames == {"LED Strip", "Ice Roller"}

\* the number of times the external call was attempted
Attempts(client) == IF client THEN 1 ELSE 0

ai_score_trend(client, response, views, growth_rate, video_count) ==
    /\ last' = [op |-> "score_trend", client |-> client, response |-> response,
                calls |-> Attempts(client),
                args |-> <<views, growth_rate, 500000, video_count>>,
                outcome |-> score_trend(client, response, views, growth_rate,
                                        500000, video_count)]
    /\ UNCHANGED <<orders, products, suggestions, webhook_secret, setup_tables>>

ai_recommend_pricing(client, response, supplier_cost_cents, margin_percent) ==
    /\ last' = [op |-> "recommend_pricing", client |-> client, response |-> response,
                calls |-> Attempts(client),
                args |-> <<supplier_cost_cents, margin_percent>>,
                outcome |-> recommend_pricing(client, response, supplier_cost_cents,
                                              margin_percent)]
    /\ UNCHANGED <<orders, products, suggestions, webhook_secret, setup_tables>>

ai_generate_product_description(client, response, product_name) ==
    /\ last' = [op |-> "generate_product_description", client |-> client,
                response |-> response, calls |-> Attempts(client),
                args |-> <<product_name>>,
                outcome |-> generate_product_description(client, response, product_name)]
    /\ UNCHANGED <<orders, products, suggestions, webhook_secret, setup_tables>>

ai_generate_ad_copy(client, response, product_name) ==
    /\ last' = [op |-> "generate_ad_copy", client |-> client, response |-> response,
                calls |-> Attempts(client),
                args |-> <<product_name>>,
                outcome |-> generate_ad_copy(client, response, product_name)]
    /\ UNCHANGED <<orders, products, suggestions, webhook_secret, setup_tables>>

InitAI ==
    /\ orders = <<>>
    /\ products = <<>>
    /\ suggestions = <<>>
    /\ webhook_secret = FALSE
    /\ product_suppliers = <<>>
    /\ integrations = <<>>
    /\ fulfillment_rules = <<>>
    /\ product_views = <<>>
    /\ trend_products = <<>>
    /\ in_flight = <<>>
    /\ last = [op |-> "init"]

NextAI ==
    \/ \E client \in BOOLEAN, response \in ScoreResponses, views \in TrendViews,
          growth_rate \in TrendGrowthRates, video_count \in TrendVideoCounts :
           ai_score_trend(client, response, views, growth_rate, video_count)
    \/ \E client \in BOOLEAN, response \in PricingResponses,
          supplier_cost_cents \in SupplierCosts, margin_percent \in MarginPercents :
           ai_recommend_pricing(client, response, supplier_cost_cents, margin_percent)
    \/ \E client \in BOOLEAN, response \in TextResponses, product_name \in ProductNames :
           ai_generate_product_description(client, response, product_name)
    \/ \E client \in BOOLEAN, response \in TextResponses, product_name \in ProductNames :
           ai_generate_ad_copy(client, response, product_name)

SpecAI == InitAI /\ [][NextAI]_vars

(***************************************************************************)
(* analytics.py.  A datetime is [day, second]: the days since 1970-01-01   *)
(* and the second of that day; timedelta(days=n) moves the day.  A date    *)
(* string "%Y-%m-%d" is the triple <<year, month, day>>.                   *)
(***************************************************************************)
DateTime(day, second) == [day |-> day, second |-> second]

MinusDays(t, days) == [t EXCEPT !.day = @ - days]
PlusDays(t, days) == [t EXCEPT !.day = @ + days]

\* a >= b on datetimes
AtOrAfter(a, b) == a.day > b.day \/ (a.day = b.day /\ a.second >= b.second)

\* strftime("%Y-%m-%d"): the proleptic Gregorian date of the day
Strftime(t) ==
    LET z == t.day + 719468
        era == z \div 146097
        doe == z - era * 146097
        yoe == (doe - doe \div 1460 + doe \div 36524 - doe \div 146096) \div 365
        doy == doe - (365 * yoe + yoe \div 4 - yoe \div 100)
        mp == (5 * doy + 2) \div 153
        d == doy - (153 * mp + 2) \div 5 + 1
        m == IF mp < 10 THEN mp + 3 ELSE mp - 9
        y == yoe + era * 400 + (IF m <= 2 THEN 1 ELSE 0)
    IN  <<y, m, d>>

\* the statuses the analytics count as revenue
RevenueStatuses == {"paid", "fulfilled", "shipped", "delivered"}

\* an order row with its created_at
OrderCreatedAt(created_at, status, amount_cents) ==
    [created_at |-> created_at] @@ Order(Some(1), amount_cents, status, None)

RECURSIVE SumAmounts(_, _)
SumAmounts(ords, ids) ==
    IF ids = {} THEN 0
    ELSE LET i == CHOOSE i \in ids : TRUE
         IN  ords[i].amount_cents + SumAmounts(ords, ids \ {i})

\* revenue_by_date.get(date_str, 0) after the grouping loop, in cents
RevenueByDate(ords, start_date, date_str) ==
    SumAmounts(ords, {i \in DOMAIN ords :
                        /\ AtOrAfter(ords[i].created_at, start_date)
                        /\ ords[i].status \in RevenueStatuses
                        /\ Strftime(ords[i].created_at) = date_str})

FillDatesOncePerWeek(ords, start_date, now, days) ==
    [i \in 1..((now.day - start_date.day) \div 7 + 1) |->
        [date    |-> Strftime(PlusDays(start_date, 7 * (i - 1))),
         revenue |-> 0]]

\* the while loop that fills in every date: current starts at start_date,
\* advances one day per pass and the loop runs while current <= now
FillDates(ords, start_date, now, days) ==
    LET passes == {k \in 0..(days + 1) : AtOrAfter(now, PlusDays(start_date, k))}
    IN  [i \in 1..Cardinality(passes) |->
            LET current == PlusDays(start_date, i - 1)
            IN  [date    |-> Strftime(current),
                 revenue |-> RevenueByDate(ords, start_date, Strftime(current))]]

\* GET /api/analytics/revenue; revenue is kept in cents
get_revenue_timeseries(ords, now, days) ==
    FillDates(ords, MinusDays(now, days), now, days)

\* a request received at time now and not yet answered
Request(path, now, days) == [op |-> "request", path |-> path, now |-> now, days |-> days]

revenue_timeseries ==
    /\ last.op = "request"
    /\ last.path = "/revenue"
    /\ last' = [op |-> "get_revenue_timeseries", now |-> last.now, days |-> last.days,
                result |-> get_revenue_timeseries(orders, last.now, last.days)]
    /\ UNCHANGED <<orders, products, suggestions, webhook_secret, setup_tables>>

(***************************************************************************)
(* The aggregations of analytics.py, admin.get_admin_stats and             *)
(* insights.get_metrics_for_period.  A ratio is [ok |-> value] or          *)
(* [error |-> "ZeroDivisionError"]; percentages are held in hundredths     *)
(* (round(x, 2)) or tenths (round(x, 1)) of a percent.                     *)
(***************************************************************************)
ProductView(viewed_at) == [product_id |-> 1, viewed_at |-> viewed_at]

\* round(n / d), ties to even, for either sign of n
Divide(n, d) ==
    IF d = 0 THEN [error |-> "ZeroDivisionError"]
    ELSE IF n >= 0 THEN [ok |-> RoundHalfEven(n, d)]
    ELSE [ok |-> 0 - RoundHalfEven(0 - n, d)]

\* n // d
FloorDivide(n, d) ==
    IF d = 0 THEN [error |-> "ZeroDivisionError"] ELSE [ok |-> n \div d]

IsNotNegative(denominator) == denominator >= 0

\* the guard "if denominator > 0" in front of every ratio
IsPositive(denominator) == denominator > 0

\* a response of the computed fields, or the first exception among them
Respond(fields) ==
    IF \E key \in DOMAIN fields : "error" \in DOMAIN fields[key]
    THEN [raised |-> "ZeroDivisionError"]
    ELSE [returned |-> [key \in DOMAIN fields |-> fields[key].ok]]

\* before: a < b on datetimes
Before(a, b) == ~AtOrAfter(a, b)

\* datetime.replace(hour=0, minute=0, second=0, microsecond=0)
Midnight(t) == [t EXCEPT !.second = 0]

ViewsSince(views, start_date) ==
    Cardinality({i \in DOMAIN views : AtOrAfter(views[i].viewed_at, start_date)})

RevenueOrdersBetween(ords, start_date, end_date) ==
    {i \in DOMAIN ords : /\ AtOrAfter(ords[i].created_at, start_date)
                         /\ end_date # None => Before(ords[i].created_at, end_date[1])
                         /\ ords[i].status \in RevenueStatuses}

\* GET /api/analytics/overview
get_overview(ords, views, now, days) ==
    LET start_date == MinusDays(now, days)
        prev_start == MinusDays(start_date, days)
        current_orders == RevenueOrdersBetween(ords, start_date, None)
        current_revenue == SumAmounts(ords, current_orders)
        current_count == Cardinality(current_orders)
        prev_orders == RevenueOrdersBetween(ords, prev_start, Some(start_date))
        prev_revenue == SumAmounts(ords, prev_orders)
        prev_count == Cardinality(prev_orders)
        total_views == ViewsSince(views, start_date)
    IN  Respond(
          [total_revenue_cents   |-> [ok |-> current_revenue],
           total_orders          |-> [ok |-> current_count],
           conversion_rate       |-> IF IsPositive(total_views)
                                     THEN Divide(current_count * 10000, total_views)
                                     ELSE [ok |-> 0],
           avg_order_value_cents |-> IF IsPositive(current_count)
                                     THEN FloorDivide(current_revenue, current_count)
                                     ELSE [ok |-> 0],
           revenue_change        |-> IF IsPositive(prev_revenue)
                                     THEN Divide((current_revenue - prev_revenue) * 1000,
                                                 prev_revenue)
                                     ELSE [ok |-> 0],
           orders_change         |-> IF IsPositive(prev_count)
                                     THEN Divide((current_count - prev_count) * 1000,
                                                 prev_count)
                                     ELSE [ok |-> 0]])

\* GET /api/analytics/conversion-funnel
get_conversion_funnel(ords, views_table, now, days) ==
    LET start_date == MinusDays(now, days)
        views == ViewsSince(views_table, start_date)
        carts == Cardinality({i \in DOMAIN ords :
                                 AtOrAfter(ords[i].created_at, start_date)})
        purchases == Cardinality(RevenueOrdersBetween(ords, start_date, None))
    IN  Respond(
          [views                 |-> [ok |-> views],
           cart_adds             |-> [ok |-> carts],
           purchases             |-> [ok |-> purchases],
           view_to_cart_rate     |-> IF IsPositive(views)
                                     THEN Divide(carts * 10000, views) ELSE [ok |-> 0],
           cart_to_purchase_rate |-> IF IsPositive(carts)
                                     THEN Divide(purchases * 10000, carts) ELSE [ok |-> 0],
           overall_conversion    |-> IF IsPositive(views)
                                     THEN Divide(purchases * 10000, views)
                                     ELSE [ok |-> 0]])

\* GET /api/admin/stats
get_admin_stats(ords, prods, suggs, views, now) ==
    LET today == Midnight(now)
        week_ago == MinusDays(today, 7)
        paid_today == {i \in DOMAIN ords : /\ AtOrAfter(ords[i].created_at, today)
                                           /\ ords[i].status = "paid"}
        week_views == ViewsSince(views, week_ago)
        week_orders == Cardinality({i \in DOMAIN ords :
                                      /\ AtOrAfter(ords[i].created_at, week_ago)
                                      /\ ords[i].status = "paid"})
    IN  Respond(
          [orders_today        |-> [ok |-> Cardinality(paid_today)],
           revenue_today_cents |-> [ok |-> SumAmounts(ords, paid_today)],
           total_products      |-> [ok |-> Len(prods)],
           live_products       |-> [ok |-> Cardinality({i \in DOMAIN prods :
                                                          prods[i].status = "live"})],
           pending_suggestions |-> [ok |-> Cardinality({i \in DOMAIN suggs :
                                                          suggs[i].status = "pending"})],
           views_today         |-> [ok |-> ViewsSince(views, today)],
           conversion_rate     |-> IF IsPositive(week_views)
                                   THEN Divide(week_orders * 10000, week_views)
                                   ELSE [ok |-> 0]])

\* insights.get_metrics_for_period; Order has no attribute total_cents
get_metrics_for_period(ords, start_date, end_date) ==
    LET selected == {i \in DOMAIN ords : /\ AtOrAfter(ords[i].created_at, start_date)
                                         /\ Before(ords[i].created_at, end_date)
                                         /\ ords[i].status # "cancelled"}
        order_count == Cardinality(selected)
        total_revenue == 0
        estimated_visits == IF order_count > 0 THEN order_count * 50 ELSE 100
    IN  IF selected # {} THEN [raised |-> "AttributeError"]
        ELSE Respond(
               [revenue_cents         |-> [ok |-> total_revenue],
                orders                |-> [ok |-> order_count],
                conversion_rate       |-> IF IsPositive(estimated_visits)
                                          THEN Divide(order_count * 10000,
                                                      estimated_visits)
                                          ELSE [ok |-> 0],
                avg_order_value_cents |-> IF IsPositive(order_count)
                                          THEN FloorDivide(total_revenue, order_count)
                                          ELSE [ok |-> 0]])

overview ==
    /\ last.op = "request"
    /\ last.path = "/overview"
    /\ last' = [op |-> "get_overview", now |-> last.now, days |-> last.days,
                outcome |-> get_overview(orders, product_views, last.now, last.days)]
    /\ UNCHANGED <<orders, products, suggestions, webhook_secret, setup_tables>>

conversion_funnel ==
    /\ last.op = "request"
    /\ last.path = "/conversion-funnel"
    /\ last' = [op |-> "get_conversion_funnel", now |-> last.now, days |-> last.days,
                outcome |-> get_conversion_funnel(orders, product_views, last.now,
                                                  last.days)]
    /\ UNCHANGED <<orders, products, suggestions, webhook_secret, setup_tables>>

admin_stats ==
    /\ last.op = "request"
    /\ last.path = "/stats"
    /\ last' = [op |-> "get_admin_stats", now |-> last.now, days |-> 7,
                outcome |-> get_admin_stats(orders, products, suggestions,
                                            product_views, last.now)]
    /\ UNCHANGED <<orders, products, suggestions, webhook_secret, setup_tables>>

\* the metrics of today so far, as the insights endpoints ask for them
metrics_for_today ==
    /\ last.op = "request"
    /\ last.path = "/insights"
    /\ last' = [op |-> "get_metrics_for_period", now |-> last.now, days |-> 0,
                outcome |-> get_metrics_for_period(orders, Midnight(last.now), last.now)]
    /\ UNCHANGED <<orders, products, suggestions, webhook_secret, setup_tables>>

(***************************************************************************)
(* Analytics: an orders table with creation times, read at a later time    *)
(* over a window of 1 to 365 days.                                         *)
(***************************************************************************)
MaxWindowDays == 365

\* days: int = Query(7, ge=1, le=90)
MaxFunnelDays == 90

\* 2024-03-01 12:00:00 and 2025-01-01 00:00:00
AnalyticsNows == {DateTime(19783, 43200), DateTime(20089, 0)}

\* 2024-02-29 08:00:00, 2024-12-31 23:59:59, 2022-06-01 00:00:00 and
\* 2024-03-01 01:00:00
OrderTimes == {DateTime(19782, 28800), DateTime(20088, 86399), DateTime(19144, 0),
               DateTime(19783, 3600)}

AnalyticsOrders ==
    {<<>>}
        \cup {<<OrderCreatedAt(t, status, 1999)>> :
                 t \in OrderTimes, status \in {"paid", "pending"}}
        \cup {<<OrderCreatedAt(DateTime(19782, 28800), "paid", 1999),
                OrderCreatedAt(DateTime(20088, 86399), status, 2999)>> :
                 status \in {"paid", "cancelled"}}

\* no views, or one view at 2024-12-31 23:59:59
AnalyticsViews == {<<>>, <<ProductView(DateTime(20088, 86399))>>}

AnalyticsRequests ==
    {Request("/revenue", now, days) : now \in AnalyticsNows, days \in 1..MaxWindowDays}
        \cup {Request("/overview", now, days) :
                 now \in AnalyticsNows, days \in {1, 7, 90, 306, MaxWindowDays}}
        \cup {Request("/conversion-funnel", now, days) :
                 now \in AnalyticsNows, days \in {1, 7, MaxFunnelDays}}
        \cup {Request(path, now, 0) : path \in {"/stats", "/insights"},
                                      now \in AnalyticsNows}

InitAnalytics ==
    /\ orders \in AnalyticsOrders
    /\ products = SeedProducts
    /\ suggestions = <<>>
    /\ webhook_secret = FALSE
    /\ product_suppliers = <<>>
    /\ integrations = <<>>
    /\ fulfillment_rules = <<>>
    /\ product_views \in AnalyticsViews
    /\ trend_products = <<>>
    /\ in_flight = <<>>
    /\ last \in AnalyticsRequests
    /\ \A i \in DOMAIN orders : AtOrAfter(last.now, orders[i].created_at)
    /\ \A i \in DOMAIN product_views : AtOrAfter(last.now, product_views[i].viewed_at)

NextAnalytics ==
    \/ revenue_timeseries
    \/ overview
    \/ conversion_funnel
    \/ admin_stats
    \/ metrics_for_today

SpecAnalytics == InitAnalytics /\ [][NextAnalytics]_vars

(***************************************************************************)
(* The other paths that write products: POST /api/import/create-product    *)
(* (imports.create_from_import), POST /api/trends/import                   *)
(* (trends.import_trend_product) and PATCH /admin/products/{id}            *)
(* (admin.update_product).                                                 *)
(***************************************************************************)
\* re.sub('[class]', '', s)
RECURSIVE RemoveChars(_, _)
RemoveChars(s, class) ==
    IF s = <<>> THEN <<>>
    ELSE IF Head(s) \in class THEN RemoveChars(Tail(s), class)
    ELSE <<Head(s)>> \o RemoveChars(Tail(s), class)

\* re.sub('[class]+', new, s): every maximal run of class characters becomes new
RECURSIVE ReplaceRuns(_, _, _)
ReplaceRuns(s, class, new) ==
    IF s = <<>> THEN <<>>
    ELSE IF Head(s) \notin class THEN <<Head(s)>> \o ReplaceRuns(Tail(s), class, new)
    ELSE IF Len(s) >= 2 /\ s[2] \in class THEN ReplaceRuns(Tail(s), class, new)
    ELSE <<new>> \o ReplaceRuns(Tail(s), class, new)

\* str.strip(c)
RECURSIVE StripChar(_, _)
StripChar(s, c) ==
    IF s = <<>> THEN s
    ELSE IF Head(s) = c THEN StripChar(Tail(s), c)
    ELSE IF s[Len(s)] = c THEN StripChar(SubSeq(s, 1, Len(s) - 1), c)
    ELSE s

\* s[:n]
Take(s, n) == SubSeq(s, 1, Min(n, Len(s)))

CharsOf(s) == {s[i] : i \in DOMAIN s}

\* imports.generate_slug
generate_slug(title) ==
    LET lowered == StrLower(title)
        kept == RemoveChars(lowered,
                            CharsOf(lowered) \ (SlugAlnum \cup Whitespace \cup {"-"}))
        hyphenated == ReplaceRuns(kept, Whitespace, "-")
        collapsed == ReplaceRuns(hyphenated, {"-"}, "-")
    IN  StripChar(Take(collapsed, 50), "-")

\* re.sub(r'[^a-z0-9]+', '-', name.lower()).strip('-')[:50]
TrendSlug(name) ==
    LET lowered == StrLower(name)
    IN  Take(StripChar(ReplaceRuns(lowered, CharsOf(lowered) \ SlugAlnum, "-"), "-"), 50)

\* the first of base, base-1, base-2, ... that no product has
FirstFreeSlug(prods, base_slug) ==
    IF ~SlugTaken(prods, base_slug) THEN base_slug
    ELSE LET Numbered(counter) == base_slug \o <<"-">> \o IntToStr(counter)
             counter == CHOOSE c \in 1..(Len(prods) + 1) :
                            /\ ~SlugTaken(prods, Numbered(c))
                            /\ \A b \in 1..(c - 1) : SlugTaken(prods, Numbered(b))
         IN  Numbered(counter)

CreateFromImportRequest(title, price_cents, supplier_cost_cents) ==
    [title |-> title, price_cents |-> price_cents,
     supplier_cost_cents |-> supplier_cost_cents]

create_from_import(request) ==
    LET call == [op |-> "create_from_import"]
        slug == FirstFreeSlug(products, generate_slug(request.title))
    IN  /\ IF request.supplier_cost_cents > 0 /\ request.price_cents = 0
           THEN \* the margin divides by price_cents: ZeroDivisionError
                /\ last' = call @@ [code |-> 500]
                /\ UNCHANGED products
           ELSE /\ products' = Append(products,
                                      Product(slug, request.price_cents, Some(SupplierUrl),
                                              Some("AliExpress"), "testing"))
                /\ last' = call @@ [code |-> 200, product_id |-> Len(products) + 1]
        /\ UNCHANGED <<orders, suggestions, webhook_secret, setup_tables>>

TrendProduct(title, trend_score, suggested_price_cents) ==
    [title                 |-> title,
     trend_score           |-> trend_score,
     suggested_price_cents |-> suggested_price_cents,
     is_imported           |-> FALSE,
     imported_product_id   |-> None]

ImportTrendProductRequest(trend_product_id, custom_name, custom_price_cents) ==
    [trend_product_id |-> trend_product_id, custom_name |-> custom_name,
     custom_price_cents |-> custom_price_cents]

\* a or b on Optional integers: None and 0 are falsy
OrInt(a, b) == IF a = None THEN b ELSE IF a[1] = 0 THEN b ELSE a

\* a or b on Optional strings: None and "" are falsy
OrStr(a, b) == IF a = None THEN b ELSE IF Len(a[1]) = 0 THEN b ELSE a

ImportedNever(trend_product) == FALSE

\* if trend_product.is_imported: raise HTTPException(status_code=400)
AlreadyImported(trend_product) == trend_product.is_imported

import_trend_product(request) ==
    LET call == [op |-> "import_trend_product"]
        id == request.trend_product_id
    IN  /\ IF GetById(trend_products, id) = None
           THEN /\ last' = call @@ [code |-> 404]
                /\ UNCHANGED <<products, trend_products>>
           ELSE IF AlreadyImported(trend_products[id])
           THEN /\ last' = call @@ [code |-> 400]
                /\ UNCHANGED <<products, trend_products>>
           ELSE LET trend_product == trend_products[id]
                    name == OrStr(request.custom_name, Some(trend_product.title))[1]
                    slug == FirstFreeSlug(products, TrendSlug(name))
                    price == OrInt(request.custom_price_cents,
                                   OrInt(trend_product.suggested_price_cents,
                                         Some(1999)))[1]
                IN  /\ products' = Append(products,
                                [Product(slug, price, Some(SupplierUrl), None, "testing")
                                     EXCEPT !.trend_score = trend_product.trend_score])
                    /\ trend_products' = [trend_products EXCEPT
                           ![id].is_imported = TRUE,
                           ![id].imported_product_id = Some(Len(products) + 1)]
                    /\ last' = call @@ [code |-> 200, product_id |-> Len(products) + 1]
        /\ UNCHANGED <<orders, suggestions, webhook_secret, product_suppliers,
                       integrations, fulfillment_rules, product_views, in_flight>>

\* str.lower() of a status word
StatusLower(status) ==
    CASE status = "LIVE" -> "live" [] OTHER -> status

ProductStatuses == {"testing", "live", "paused", "killed"}

\* schemas.ProductUpdate: the validated fields returned, or ValueError raised
ProductUpdate(update) ==
    IF "price_cents" \in DOMAIN update /\ update.price_cents # None
          /\ "raised" \in DOMAIN validate_price(update.price_cents[1])
    THEN [raised |-> "ValueError"]
    ELSE IF "status" \in DOMAIN update /\ update.status # None
          /\ StatusLower(update.status[1]) \notin ProductStatuses
    THEN [raised |-> "ValueError"]
    ELSE [returned |->
             [key \in DOMAIN update |->
                 IF key = "status" /\ update[key] # None
                 THEN Some(StatusLower(update[key][1])) ELSE update[key]]]

\* setattr(product, key, value) for the keys the request sets; the columns are
\* not nullable in the model, so a null is stored as the column's None
SetProductAttrs(product, update_data) ==
    [key \in DOMAIN product |->
        IF key \in DOMAIN update_data
        THEN (IF update_data[key] = None THEN None ELSE update_data[key][1])
        ELSE product[key]]

update_product(product_id, update) ==
    LET call == [op |-> "update_product", product_id |-> product_id]
    IN  /\ IF "raised" \in DOMAIN ProductUpdate(update)
           THEN /\ last' = call @@ [code |-> 422]
                /\ UNCHANGED products
           ELSE IF GetById(products, product_id) = None
           THEN /\ last' = call @@ [code |-> 404]
                /\ UNCHANGED products
           ELSE /\ products' = [products EXCEPT
                       ![product_id] = SetProductAttrs(@, ProductUpdate(update).returned)]
                /\ last' = call @@ [code |-> 200]
        /\ UNCHANGED <<orders, suggestions, webhook_secret, setup_tables>>

(***************************************************************************)
(* The catalog: products arrive by POST /products, by approval of a        *)
(* suggestion, by the two imports, and are edited by the admin PATCH.      *)
(***************************************************************************)
MaxCatalog == 2

\* "Fan  2!", "AN" and "!!"
ImportTitles ==
    {<<"F", "a", "n", " ", " ", "2", "!">>, <<"A", "N">>, <<"!", "!">>}

ImportPrices == {2499, 0, -1}

ImportRequests ==
    {CreateFromImportRequest(title, price_cents, supplier_cost_cents) :
        title \in ImportTitles, price_cents \in ImportPrices,
        supplier_cost_cents \in {0, 899}}

\* two rows of the kind POST /api/trends/seed writes
SeedTrendProducts ==
    << TrendProduct(<<"F", "a", "n", " ", "-", " ", "2">>, 92, Some(4999)),
       TrendProduct(<<"F", "a", "n">>, 88, None) >>

TrendImportRequests ==
    {ImportTrendProductRequest(id, custom_name, custom_price_cents) :
        id \in 1..(Len(SeedTrendProducts) + 1),
        custom_name \in {None, Some(<<"A", "N">>)},
        custom_price_cents \in {None, Some(-1)}}

ProductUpdates ==
    {[price_cents |-> Some(price_cents)] : price_cents \in {-1, 1499}}
        \cup {[status |-> Some(status)] : status \in {"LIVE", "sold"}}

\* suggestions as the trend worker scores them
ScoredSuggestions ==
    {[TrendSuggestion(hashtag) EXCEPT !.trend_score = 85, !.urgency_score = 60] :
        hashtag \in Hashtags \cup {<<"#", "a", "n">>}}

InitProducts ==
    /\ orders = <<>>
    /\ products = <<>>
    /\ suggestions \in [1..1 -> ScoredSuggestions]
    /\ webhook_secret = FALSE
    /\ product_suppliers = <<>>
    /\ integrations = <<>>
    /\ fulfillment_rules = <<>>
    /\ product_views = <<>>
    /\ trend_products = SeedTrendProducts
    /\ in_flight = <<>>
    /\ last = [op |-> "init"]

NextProducts ==
    \/ /\ Len(products) < MaxCatalog
       /\ \E slug \in RequestedSlugs, price_cents \in {1999, -1} :
              create_product(slug, price_cents)
    \/ /\ Len(products) < MaxCatalog
       /\ \E suggestion_id \in DOMAIN suggestions, request \in ApproveRequests :
              approve_suggestion(suggestion_id, request)
    \/ /\ Len(products) < MaxCatalog
       /\ \E request \in ImportRequests : create_from_import(request)
    \/ /\ Len(products) < MaxCatalog
       /\ \E request \in TrendImportRequests : import_trend_product(request)
    \/ \E product_id \in 1..(Len(products) + 1), update \in ProductUpdates :
           update_product(product_id, update)

SpecProducts == InitProducts /\ [][NextProducts]_vars

(***************************************************************************)
(* schemas.validate_slug applied to one string: the strings of up to       *)
(* MaxSlugLen characters over a small alphabet, and strings around the     *)
(* upper length limit.                                                     *)
(***************************************************************************)
MaxSlugLen == 4

SlugChars == {"a", "0", "-", "A", "\n"}

ShortStrings == UNION {[1..n -> SlugChars] : n \in 0..MaxSlugLen}

\* "a" * n, and the same ending in "-b", in "-" and in a newline
LongStrings ==
    UNION {{[i \in 1..n |-> "a"],
            [i \in 1..n |-> IF i = n - 1 THEN "-" ELSE "a"],
            [i \in 1..n |-> IF i = n THEN "-" ELSE "a"],
            [i \in 1..n |-> IF i = n THEN "\n" ELSE "a"]} : n \in 99..102}

validate_slug_field ==
    /\ last.op = "request"
    /\ last.path = "validate_slug"
    /\ last' = [op |-> "validate_slug", value |-> last.value,
                accepted |-> "returned" \in DOMAIN validate_slug(last.value)]
    /\ UNCHANGED <<orders, products, suggestions, webhook_secret, setup_tables>>

InitSlug ==
    /\ orders = <<>>
    /\ products = <<>>
    /\ suggestions = <<>>
    /\ webhook_secret = FALSE
    /\ product_suppliers = <<>>
    /\ integrations = <<>>
    /\ fulfillment_rules = <<>>
    /\ product_views = <<>>
    /\ trend_products = <<>>
    /\ in_flight = <<>>
    /\ last \in {[op |-> "request", path |-> "validate_slug", value |-> value] :
                    value \in ShortStrings \cup LongStrings}

NextSlug == validate_slug_field

SpecSlug == InitSlug /\ [][NextSlug]_vars

(***************************************************************************)
(* auto_order_from_supplier handled by several workers at once.  Each      *)
(* request has its own database session: it reads the order and checks     *)
(* eligibility (lines 104-120), and later writes supplier_order_id and     *)
(* status and commits (lines 134-148).  The commit is an UPDATE of the     *)
(* two changed columns by primary key; nothing locks or re-reads the row.  *)
(***************************************************************************)
MaxCalls == 2

CallTimes == {"20240101120000", "20240101120001"}

\* lines 104-120: the order is loaded and found eligible, or the call returns
begin_auto_order(order_id) ==
    LET out == auto_order_from_supplier(orders, products, order_id, "unread")
    IN  /\ IF out.result.success
           THEN /\ in_flight' = Append(in_flight,
                                       [op |-> "auto_order_from_supplier",
                                        order_id |-> order_id, pc |-> "eligible"])
                /\ last' = [op |-> "auto_order_from_supplier", order_id |-> order_id,
                            pc |-> "eligible"]
           ELSE /\ in_flight' = Append(in_flight,
                                       [op |-> "auto_order_from_supplier",
                                        order_id |-> order_id, pc |-> "returned",
                                        result |-> out.result])
                /\ last' = [op |-> "auto_order_from_supplier", order_id |-> order_id,
                            result |-> out.result]
        /\ UNCHANGED <<orders, products, suggestions, webhook_secret, product_suppliers,
                       integrations, fulfillment_rules, product_views, trend_products>>

\* lines 122-148: the supplier order is placed, stored and committed
commit_auto_order(call, now) ==
    LET order_id == in_flight[call].order_id
        product == OrderProduct(products, orders[order_id])[1]
        supplier_name == IF Truthy(product.supplier_name)
                         THEN product.supplier_name[1] ELSE "Unknown Supplier"
        supplier_order_id == SupplierOrderId(order_id, now)
        result == FulfillmentResult(TRUE, order_id, <<"Order placed with ", supplier_name>>,
                                    Some(supplier_order_id))
    IN  /\ in_flight[call].pc = "eligible"
        /\ orders' = StoreSupplierOrder(orders, order_id, supplier_order_id)
        /\ in_flight' = [in_flight EXCEPT ![call] =
                            [op |-> "auto_order_from_supplier", order_id |-> order_id,
                             pc |-> "returned", result |-> result]]
        /\ last' = [op |-> "auto_order_from_supplier", order_id |-> order_id,
                    result |-> result]
        /\ UNCHANGED <<products, suggestions, webhook_secret, product_suppliers,
                       integrations, fulfillment_rules, product_views, trend_products>>

\* one or two orders for the product with a supplier, each pending or paid
ConcurrentOrders ==
    UNION {[1..n -> {Order(Some(1), amount_cents, status, None) :
                        amount_cents \in Amounts, status \in {"pending", "paid"}}] :
              n \in 1..2}

InitConcurrent ==
    /\ orders \in ConcurrentOrders
    /\ products = SeedProducts
    /\ suggestions = <<>>
    /\ webhook_secret = FALSE
    /\ product_suppliers = <<>>
    /\ integrations = <<>>
    /\ fulfillment_rules = <<>>
    /\ product_views = <<>>
    /\ trend_products = <<>>
    /\ in_flight = <<>>
    /\ last = [op |-> "init"]

NextConcurrent ==
    \/ /\ Len(in_flight) < MaxCalls
       /\ \E order_id \in 1..(Len(orders) + 1) : begin_auto_order(order_id)
    \/ \E call \in DOMAIN in_flight, now \in CallTimes : commit_auto_order(call, now)

SpecConcurrent == InitConcurrent /\ [][NextConcurrent]_vars

(***************************************************************************)
(* integration_api: test_connection and trigger_sync.  The platform's      *)
(* answer to the connection test is an input; the fetches of a sync        *)
(* return lists and swallow their own errors, so a sync fails only when    *)
(* the service cannot be built from the row (store_url is None).           *)
(***************************************************************************)
\* if not integration.access_token or not integration.store_url (shopify);
\* if not api_key or not api_secret or not store_url (woocommerce)
MissingCredentials(row) ==
    IF row.platform = "shopify"
    THEN ~Truthy(row.access_token) \/ ~Truthy(row.store_url)
    ELSE ~Truthy(row.api_key) \/ ~Truthy(row.api_secret) \/ ~Truthy(row.store_url)

\* is_connected = result.success; sync_status = "ready" if success else "error";
\* sync_error = None if success else message
ConnectionTested(row, success, message) ==
    [row EXCEPT !.is_connected = success,
                !.sync_status  = IF success THEN "ready" ELSE "error",
                !.sync_error   = IF success THEN None ELSE Some(message)]

test_connection(integration_id, result) ==
    LET call == [op |-> "test_connection", integration_id |-> integration_id]
        row  == integrations[integration_id]
    IN  /\ IF GetById(integrations, integration_id) = None
           THEN /\ last' = call @@ [code |-> 404]
                /\ UNCHANGED integrations
           ELSE IF row.platform \notin {"shopify", "woocommerce"}
           THEN /\ last' = call @@ [code |-> 200, success |-> FALSE]
                /\ UNCHANGED integrations
           ELSE IF MissingCredentials(row)
           THEN /\ integrations' = [integrations EXCEPT ![integration_id] =
                        ConnectionTested(@, FALSE, "Missing store URL or credentials")]
                /\ last' = call @@ [code |-> 200, success |-> FALSE]
           ELSE /\ integrations' = [integrations EXCEPT ![integration_id] =
                        ConnectionTested(@, result.success, result.message)]
                /\ last' = call @@ [code |-> 200, success |-> result.success]
        /\ UNCHANGED <<orders, products, suggestions, webhook_secret,
                       product_suppliers, fulfillment_rules, product_views, trend_products,
                       in_flight>>

SyncAlwaysAccepted(row) == FALSE

\* if not integration.is_connected: raise HTTPException(status_code=400)
NotConnected(row) == ~row.is_connected

\* ShopifyService.__init__ / WooCommerceService.__init__ call store_url.replace /
\* store_url.rstrip: AttributeError on None, caught by trigger_sync's except
ServiceRaises(row) == row.store_url = None

\* sync_status = "synced"; sync_error = None
SyncCompleted(row) == [row EXCEPT !.sync_status = "synced", !.sync_error = None]

\* except Exception as e: sync_status = "error"; sync_error = str(e)
SyncFailed(row, e) == [row EXCEPT !.sync_status = "error", !.sync_error = Some(e)]

\* lines 313-331: the row is loaded, checked and marked 'syncing' (committed), and
\* the service is built; the call then waits for the platform
begin_sync(integration_id) ==
    LET call == [op |-> "trigger_sync", integration_id |-> integration_id]
        row  == integrations[integration_id]
    IN  /\ IF GetById(integrations, integration_id) = None
           THEN /\ last' = call @@ [code |-> 404]
                /\ UNCHANGED <<integrations, in_flight>>
           ELSE IF NotConnected(row)
           THEN /\ last' = call @@ [code |-> 400]
                /\ UNCHANGED <<integrations, in_flight>>
           ELSE IF ServiceRaises(row)
           THEN /\ integrations' = [integrations EXCEPT ![integration_id] =
                        SyncFailed(@, "AttributeError")]
                /\ in_flight' = Append(in_flight, call @@ [pc |-> "returned",
                                                           success |-> FALSE])
                /\ last' = call @@ [code |-> 200, success |-> FALSE]
           ELSE /\ integrations' = [integrations EXCEPT ![integration_id].sync_status =
                        "syncing"]
                /\ in_flight' = Append(in_flight, call @@ [pc |-> "syncing"])
                /\ last' = call @@ [pc |-> "syncing"]
        /\ UNCHANGED <<orders, products, suggestions, webhook_secret,
                       product_suppliers, fulfillment_rules, product_views, trend_products>>

\* lines 333-373: the fetches have returned; the row is marked 'synced' and committed
finish_sync(call) ==
    LET integration_id == in_flight[call].integration_id
    IN  /\ in_flight[call].pc = "syncing"
        /\ integrations' = [integrations EXCEPT ![integration_id] = SyncCompleted(@)]
        /\ in_flight' = [in_flight EXCEPT ![call] =
                            [op |-> "trigger_sync", integration_id |-> integration_id,
                             pc |-> "returned", success |-> TRUE]]
        /\ last' = [op |-> "trigger_sync", integration_id |-> integration_id,
                    code |-> 200, success |-> TRUE]
        /\ UNCHANGED <<orders, products, suggestions, webhook_secret,
                       product_suppliers, fulfillment_rules, product_views, trend_products>>

(***************************************************************************)
(* Store integrations with credentials: connect, update, disconnect, test  *)
(* and sync requests in any order, syncs overlapping other requests.       *)
(***************************************************************************)
MaxSyncRows == 1

SyncConnectRequests ==
    [platform : {"shopify"}, store_url : {"a.myshopify.com"},
     access_token : {None, Some("shpat_1")}]

\* the fields a PATCH body sets: access_token, or store_url (null included)
SyncUpdates ==
    {[key \in {"access_token"} |-> Some("shpat_1")],
     [key \in {"store_url"} |-> None],
     [key \in {"store_url"} |-> Some("a.myshopify.com")]}

\* what ShopifyService.test_connection returns
ConnectionResults ==
    {[success |-> TRUE,  message |-> "Successfully connected to Shopify"],
     [success |-> FALSE, message |-> "Invalid access token"]}

InitSync ==
    /\ orders = <<>>
    /\ products = SeedProducts
    /\ suggestions = <<>>
    /\ webhook_secret = FALSE
    /\ product_suppliers = <<>>
    /\ integrations = <<>>
    /\ fulfillment_rules = <<>>
    /\ product_views = <<>>
    /\ trend_products = <<>>
    /\ in_flight = <<>>
    /\ last = [op |-> "init"]

NextSync ==
    \/ \E request \in SyncConnectRequests :
           /\ Len(integrations) < MaxSyncRows
           /\ connect_integration(request)
    \/ \E integration_id \in DOMAIN integrations, update_data \in SyncUpdates :
           update_integration(integration_id, update_data)
    \/ \E integration_id \in DOMAIN integrations :
           disconnect_integration(integration_id)
    \/ \E integration_id \in 1..(Len(integrations) + 1), result \in ConnectionResults :
           test_connection(integration_id, result)
    \/ /\ Len(in_flight) < MaxCalls
       /\ \E integration_id \in 1..(Len(integrations) + 1) : begin_sync(integration_id)
    \/ \E call \in DOMAIN in_flight : finish_sync(call)

SpecSync == InitSync /\ [][NextSync]_vars

(***************************************************************************)
(* Trend imports: the seeded trend products imported in any order, between *)
(* product creations that take the slugs the imports would choose and      *)
(* product updates.                                                        *)
(***************************************************************************)
TakenSlugs == {<<"f", "a", "n">>, <<"f", "a", "n", "-", "2">>, <<"a", "n">>}

InitTrendImport ==
    /\ orders = <<>>
    /\ products = <<>>
    /\ suggestions = <<>>
    /\ webhook_secret = FALSE
    /\ product_suppliers = <<>>
    /\ integrations = <<>>
    /\ fulfillment_rules = <<>>
    /\ product_views = <<>>
    /\ trend_products = SeedTrendProducts
    /\ in_flight = <<>>
    /\ last = [op |-> "init"]

NextTrendImport ==
    \/ /\ Len(products) < MaxCatalog
       /\ \E slug \in TakenSlugs : create_product(slug, 1999)
    \/ /\ Len(products) < MaxCatalog
       /\ \E request \in TrendImportRequests : import_trend_product(request)
    \/ \E product_id \in DOMAIN products, update \in ProductUpdates :
           update_product(product_id, update)

SpecTrendImport == InitTrendImport /\ [][NextTrendImport]_vars

(***************************************************************************)
(* The conditions of auto-fulfillment as sections 4.2 and 8 state them.    *)
(***************************************************************************)
HasSupplierUrl(o) ==
    /\ o.product_id # None
    /\ o.product_id[1] \in DOMAIN products
    /\ products[o.product_id[1]].supplier_url \notin {None, Some("")}

UnderCap(o) == o.amount_cents <= max_auto_order_value

Eligible(o) == o.status = "pending" /\ UnderCap(o) /\ HasSupplierUrl(o)

FailedConditions(o) ==
    (IF o.status # "pending" THEN 1 ELSE 0)
    + (IF ~UnderCap(o) THEN 1 ELSE 0)
    + (IF ~HasSupplierUrl(o) THEN 1 ELSE 0)

(***************************************************************************)
(* C1: for every existing order the eligibility check answers eligible     *)
(* exactly when the order is pending, at most the cap and has a product    *)
(* with a supplier URL; otherwise it gives one reason per failed           *)
(* condition, among them "Order status is 'X', must be 'pending'" with X   *)
(* the order's status when that is not pending.  The check changes no      *)
(* order.                                                                  *)
(***************************************************************************)
C1_Answer ==
    (last.op = "check_auto_fulfill_eligibility" /\ last.order_id \in DOMAIN orders) =>
        LET o == orders[last.order_id]
            r == last.result
        IN  /\ r.eligible <=> Eligible(o)
            /\ Len(r.reasons) = FailedConditions(o)
            /\ o.status # "pending" =>
                 \E i \in DOMAIN r.reasons :
                     r.reasons[i] = [text |-> "Order status is 'X', must be 'pending'",
                                     X |-> o.status]

C1_EligibilityCheck ==
    /\ []C1_Answer
    /\ [][last'.op = "check_auto_fulfill_eligibility" => orders' = orders]_vars

C1_Witness ==
    /\ last.op = "check_auto_fulfill_eligibility"
    /\ last.order_id \in DOMAIN orders
    /\ ~last.result.eligible
    /\ Len(last.result.reasons) = 3
    /\ \E i \in DOMAIN orders : i # last.order_id /\ Eligible(orders[i])

(***************************************************************************)
(* C2: auto_order_from_supplier on an eligible order returns success with  *)
(* a non-empty supplier_order_id, stores it on the order and moves the     *)
(* order from pending to processing; no other order changes.               *)
(***************************************************************************)
C2_AutoOrderEligible ==
    [][(/\ last'.op = "auto_order_from_supplier"
        /\ last'.order_id \in DOMAIN orders
        /\ Eligible(orders[last'.order_id])) =>
           LET id == last'.order_id
               r == last'.result
           IN  /\ r.success
               /\ r.supplier_order_id # None
               /\ r.supplier_order_id[1] # <<>>
               /\ DOMAIN orders' = DOMAIN orders
               /\ orders'[id].supplier_order_id = r.supplier_order_id
               /\ orders[id].status = "pending"
               /\ orders'[id].status = "processing"
               /\ \A j \in DOMAIN orders : j # id => orders'[j] = orders[j]]_vars

C2_Witness ==
    /\ last.op = "auto_order_from_supplier"
    /\ last.result.success
    /\ orders[last.order_id].status = "processing"
    /\ orders[last.order_id].supplier_order_id = last.result.supplier_order_id
    /\ \E j \in DOMAIN orders : j # last.order_id /\ orders[j].status = "pending"

(***************************************************************************)
(* C3: auto_order_from_supplier on an order id that does not exist or on   *)
(* an order that is not eligible returns a result with success=false and a *)
(* message, and leaves every order as it was.                              *)
(***************************************************************************)
C3_AutoOrderRefused ==
    [][(/\ last'.op = "auto_order_from_supplier"
        /\ \/ last'.order_id \notin DOMAIN orders
           \/ ~Eligible(orders[last'.order_id])) =>
           /\ last'.result.success = FALSE
           /\ last'.result.order_id = last'.order_id
           /\ last'.result.message # <<>>
           /\ last'.result.supplier_order_id = None
           /\ orders' = orders]_vars

C3_Witness ==
    /\ last.op = "auto_order_from_supplier"
    /\ last.order_id \in DOMAIN orders
    /\ ~last.result.success
    /\ orders[last.order_id].status = "processing"
    /\ orders[last.order_id].supplier_order_id # None

(***************************************************************************)
(* C4: process_fulfillment_queue returns one result per order that was     *)
(* pending and at most the cap when it was called; afterwards each of      *)
(* these with a supplier URL is processing, the others of the selection    *)
(* and every order outside it are unchanged: a failure neither stops the   *)
(* later orders nor undoes the earlier ones.                               *)
(***************************************************************************)
Selected == {i \in DOMAIN orders : orders[i].status = "pending" /\ UnderCap(orders[i])}

C4_ProcessQueue ==
    [][last'.op = "process_fulfillment_queue" =>
         LET rs == last'.results
         IN  /\ Len(rs) = Cardinality(Selected)
             /\ {rs[k].order_id : k \in DOMAIN rs} = Selected
             /\ DOMAIN orders' = DOMAIN orders
             /\ \A k \in DOMAIN rs : rs[k].success <=> HasSupplierUrl(orders[rs[k].order_id])
             /\ \A i \in DOMAIN orders :
                    IF i \in Selected /\ HasSupplierUrl(orders[i])
                    THEN /\ orders'[i].status = "processing"
                         /\ orders'[i].supplier_order_id # None
                    ELSE orders'[i] = orders[i]]_vars

C4_Witness ==
    /\ last.op = "process_fulfillment_queue"
    /\ Len(last.results) >= 2
    /\ ~last.results[1].success
    /\ last.results[2].success
    /\ orders[last.results[1].order_id].status = "pending"
    /\ orders[last.results[2].order_id].status = "processing"

(***************************************************************************)
(* C7: every accepted checkout.session.completed event appends exactly one *)
(* order with status paid, the session's amount_total and the session's    *)
(* id, whether or not an order with that session id exists already; the    *)
(* earlier orders stay as they were (events carrying an integer            *)
(* amount_total).                                                          *)
(***************************************************************************)
C7_CompletedCreatesOrder ==
    [][(/\ last'.op = "stripe_webhook"
        /\ last'.type = "checkout.session.completed"
        /\ last'.code = 200) =>
           /\ Len(orders') = Len(orders) + 1
           /\ \A i \in DOMAIN orders : orders'[i] = orders[i]
           /\ orders'[Len(orders')].status = "paid"
           /\ orders'[Len(orders')].amount_cents = last'.amount_total
           /\ orders'[Len(orders')].stripe_session_id = last'.session_id]_vars

C7_Witness ==
    /\ last.op = "stripe_webhook"
    /\ last.type = "checkout.session.completed"
    /\ last.code = 200
    /\ \E i, j \in DOMAIN orders :
           /\ i < j
           /\ j = Len(orders)
           /\ orders[i].stripe_session_id = Some("cs_test_1")
           /\ orders[j].stripe_session_id = Some("cs_test_1")
           /\ orders[j].status = "paid"

(***************************************************************************)
(* C8: an accepted checkout.session.expired event sets abandoned on one    *)
(* order carrying the event's session id, whatever its status, and changes *)
(* nothing else; with no such order it changes nothing; it creates no      *)
(* order.  An event of another type changes no table.                      *)
(***************************************************************************)
C8_ExpiredAbandonsOne ==
    [][(last'.op = "stripe_webhook" /\ last'.code = 200) =>
           /\ last'.type = "checkout.session.expired" =>
                LET matching == {i \in DOMAIN orders :
                                     orders[i].stripe_session_id = last'.session_id}
                IN  /\ matching = {} => orders' = orders
                    /\ matching # {} =>
                         \E i \in matching :
                             orders' = [orders EXCEPT ![i].status = "abandoned"]
           /\ last'.type \notin {"checkout.session.expired", "checkout.session.completed"} =>
                UNCHANGED <<orders, products, suggestions>>]_vars

C8_Witness ==
    /\ last.op = "stripe_webhook"
    /\ last.type = "checkout.session.expired"
    /\ last.code = 200
    /\ \E i, j \in DOMAIN orders :
           /\ orders[i].stripe_session_id = last.session_id
           /\ orders[j].stripe_session_id = last.session_id
           /\ orders[i].status = "abandoned"
           /\ orders[j].status = "paid"

(***************************************************************************)
(* The order statuses of section 3.                                        *)
(***************************************************************************)
OrderStatuses ==
    {"pending", "paid", "processing", "shipped", "delivered", "fulfilled",
     "cancelled", "refunded", "abandoned"}

(***************************************************************************)
(* C9: after any sequence of order creation, webhook events, status        *)
(* updates, auto-fulfillment, tracking updates and mark-delivered calls    *)
(* every order's status is one of the nine listed; a request for a status  *)
(* that is none of them (whatever its letter case) is rejected and changes *)
(* no order.                                                               *)
(***************************************************************************)
C9_StatusListed == \A i \in DOMAIN orders : orders[i].status \in OrderStatuses

C9_OrderStatusAllowList ==
    /\ []C9_StatusListed
    /\ [][\A order_id \in OrderIds :
            /\ \A status \in RequestedStatuses :
                 (Lower(status) \notin OrderStatuses
                    /\ admin_update_order_status(order_id, status)) =>
                        (orders' = orders /\ last'.code \in {400, 422})
            /\ \A status \in CrudRequestedStatuses :
                 (Lower(status) \notin OrderStatuses
                    /\ crud_update_order_status(order_id, status)) =>
                        (orders' = orders /\ last'.raised = "ValueError")]_vars

C9_Witness ==
    /\ last.op = "admin.update_order_status"
    /\ last.order_id \in DOMAIN orders
    /\ last.code = 422
    /\ orders[last.order_id].status = "delivered"
    /\ orders[last.order_id].supplier_order_id # None
    /\ orders[last.order_id].tracking_number # None

(***************************************************************************)
(* C10: through PATCH /orders/{order_id}/status, setting any of the nine   *)
(* listed statuses on an existing order succeeds from any current status   *)
(* and leaves the order in the requested status.                           *)
(***************************************************************************)
C10_AnyListedStatusAccepted ==
    [][\A order_id \in DOMAIN orders, status \in OrderStatuses :
           admin_update_order_status(order_id, status) =>
               (last'.code = 200 /\ orders'[order_id].status = status)]_vars

(***************************************************************************)
(* C5: approving a pending suggestion creates exactly one new product,     *)
(* with status testing and a slug derived from the hashtag, and sets the   *)
(* suggestion approved with product_id the new product's id, also when a   *)
(* product with the derived slug exists already.                           *)
(***************************************************************************)
C5_ApprovePendingCreatesProduct ==
    [][\A sid \in DOMAIN suggestions :
         (/\ suggestions[sid].status = "pending"
          /\ last'.op = "approve_suggestion"
          /\ last'.suggestion_id = sid) =>
             LET base == SuggestionSlug(suggestions[sid].hashtag)
                 new == Len(products) + 1
             IN  /\ Len(products') = new
                 /\ \A i \in DOMAIN products : products'[i] = products[i]
                 /\ products'[new].status = "testing"
                 /\ products'[new].slug \in {base, base \o <<"-">> \o IntToStr(sid)}
                 /\ suggestions'[sid].status = "approved"
                 /\ suggestions'[sid].product_id = Some(new)]_vars

(***************************************************************************)
(* C6: approving a suggestion that is not pending answers 400, creates no  *)
(* product and leaves the suggestion as it is; a product created by an     *)
(* approval takes its suggestion from pending to approved, and a           *)
(* suggestion that is not pending never becomes pending again: one         *)
(* suggestion yields at most one product.                                  *)
(***************************************************************************)
C6_ApproveProcessedRefused ==
    [][\A sid \in DOMAIN suggestions :
         /\ (/\ suggestions[sid].status # "pending"
             /\ last'.op = "approve_suggestion"
             /\ last'.suggestion_id = sid) =>
                /\ last'.code = 400
                /\ products' = products
                /\ suggestions' = suggestions
         /\ (/\ last'.op = "approve_suggestion"
             /\ last'.suggestion_id = sid
             /\ products' # products) =>
                /\ suggestions[sid].status = "pending"
                /\ suggestions'[sid].status = "approved"
                /\ Len(products') = Len(products) + 1
         /\ suggestions[sid].status # "pending" => suggestions'[sid].status # "pending"]_vars

C6_Witness ==
    /\ last.op = "approve_suggestion"
    /\ last.code = 400
    /\ last.suggestion_id \in DOMAIN suggestions
    /\ suggestions[last.suggestion_id].status = "rejected"
    /\ suggestions[last.suggestion_id].product_id # None
    /\ \E sid \in DOMAIN suggestions : suggestions[sid].status = "approved"

(***************************************************************************)
(* C11: an order's tracking_number and tracking_url are non-null only if   *)
(* the order has been shipped, and no operation writes a tracking field    *)
(* on an order that has never been shipped.  Under SpecTracking an order   *)
(* that has been shipped has status shipped or delivered, and an order     *)
(* whose status is neither before and after a step has never been shipped. *)
(***************************************************************************)
C11_HasBeenShipped(o) == o.status \in {"shipped", "delivered"}

C11_TrackingOnlyOnceShipped ==
    /\ [](\A i \in DOMAIN orders :
            (orders[i].tracking_number # None \/ orders[i].tracking_url # None)
                => C11_HasBeenShipped(orders[i]))
    /\ [][\A i \in DOMAIN orders :
            (\/ orders'[i].tracking_number # orders[i].tracking_number
             \/ orders'[i].tracking_url # orders[i].tracking_url)
                => (C11_HasBeenShipped(orders[i]) \/ C11_HasBeenShipped(orders'[i]))]_vars

(***************************************************************************)
(* C12: after any sequence of link and unlink calls every product has at   *)
(* most one link with is_primary; inserting a primary link leaves every    *)
(* other link of the product non-primary, and a request whose body         *)
(* product_id differs from the path product_id is answered 400 and changes *)
(* no link.                                                                *)
(***************************************************************************)
C12_PrimaryLinks(product_id) ==
    {i \in DOMAIN product_suppliers :
        /\ product_suppliers[i].product_id = product_id
        /\ product_suppliers[i].is_primary}

C12_AtMostOnePrimary ==
    /\ [](\A product_id \in LinkProductIds : Cardinality(C12_PrimaryLinks(product_id)) <= 1)
    /\ [][\A product_id \in LinkProductIds, link \in LinkRequests :
            link_product_supplier(product_id, link) =>
                IF link.product_id # product_id
                THEN last'.code = 400 /\ product_suppliers' = product_suppliers
                ELSE /\ Len(product_suppliers') = Len(product_suppliers) + 1
                     /\ product_suppliers'[Len(product_suppliers')].is_primary
                            = link.is_primary
                     /\ link.is_primary =>
                            \A i \in DOMAIN product_suppliers :
                                product_suppliers'[i].product_id = product_id
                                    => ~product_suppliers'[i].is_primary]_vars

C12_Witness ==
    /\ last.op = "link_product_supplier"
    /\ last.code = 200
    /\ Len(product_suppliers) = 3
    /\ \A i \in DOMAIN product_suppliers : product_suppliers[i].product_id = last.product_id
    /\ ~product_suppliers[1].is_primary
    /\ ~product_suppliers[2].is_primary
    /\ product_suppliers[3].is_primary
    /\ product_suppliers[1].supplier_id # product_suppliers[3].supplier_id

(***************************************************************************)
(* C13: there is at most one active Integration row per (platform,         *)
(* store_url): connect_integration answers 400 for a store that is         *)
(* actively connected, and no sequence of connect, update and disconnect   *)
(* calls yields two active rows of the same store.                         *)
(***************************************************************************)
C13_OneActiveRowPerStore ==
    /\ [](\A i, j \in DOMAIN integrations :
            (/\ i # j
             /\ integrations[i].is_active
             /\ integrations[j].is_active
             /\ integrations[i].platform = integrations[j].platform)
                => integrations[i].store_url # integrations[j].store_url)
    /\ [][\A request \in ConnectRequests :
            (/\ ActiveIntegrations(integrations, request.platform, request.store_url) # {}
             /\ connect_integration(request))
                => (last'.code = 400 /\ integrations' = integrations)]_vars

(***************************************************************************)
(* C14: evaluate_order returns the action of the last enabled rule, in     *)
(* ascending priority (list order among equal priorities), whose condition *)
(* holds, or "process" when none holds; with the default rules the action  *)
(* is auto_fulfill exactly when amount_cents < 5000, hold_for_review       *)
(* exactly when amount_cents >= 10000 and process otherwise; a missing     *)
(* order yields action "error".                                            *)
(***************************************************************************)
C14_Matching(rules, amount_cents) ==
    {i \in DOMAIN rules :
        /\ rules[i].enabled
        /\ \/ rules[i].condition = "order_value < 5000" /\ amount_cents < 5000
           \/ rules[i].condition = "order_value >= 10000" /\ amount_cents >= 10000}

C14_Comes_before(rules, i, j) ==
    \/ rules[i].priority < rules[j].priority
    \/ rules[i].priority = rules[j].priority /\ i <= j

C14_ExpectedAction(rules, amount_cents) ==
    LET m == C14_Matching(rules, amount_cents)
    IN  IF m = {} THEN "process"
        ELSE rules[CHOOSE i \in m : \A j \in m : C14_Comes_before(rules, j, i)].action

C14_DefaultAction(amount_cents) ==
    IF amount_cents < 5000 THEN "auto_fulfill"
    ELSE IF amount_cents >= 10000 THEN "hold_for_review"
    ELSE "process"

C14_EvaluateOrder ==
    [][/\ \A order_id \in OrderIds :
            evaluate_order_rules(order_id) =>
                IF order_id \in DOMAIN orders
                THEN last'.result.action = C14_DefaultAction(orders[order_id].amount_cents)
                ELSE last'.result.action = "error"
       /\ \A order_id \in OrderIds, calls \in EngineSessions :
            engine_evaluate_order(calls, order_id) =>
                IF order_id \in DOMAIN orders
                THEN last'.result.action =
                        C14_ExpectedAction(ApplyEngineCalls(_load_default_rules, calls),
                                           orders[order_id].amount_cents)
                ELSE last'.result.action = "error"]_vars

C14_Witness ==
    /\ last.op = "engine.evaluate_order"
    /\ last.order_id \in DOMAIN orders
    /\ Len(last.result.matched_rules) = 2
    /\ last.result.action = "auto_fulfill"

(***************************************************************************)
(* C15: the answer of POST /evaluate/{order_id} depends only on the        *)
(* order's amount_cents: it is the answer given for an order of the same   *)
(* amount whatever FulfillmentRule rows were created, updated, toggled or  *)
(* deleted before, because the evaluator uses its fixed rule list.         *)
(***************************************************************************)
C15_RuleTables ==
    {<<>>} \cup {<<Some(FulfillmentRule(r))>> : r \in RuleRequests}
           \cup {<<Some(FulfillmentRule(r1)), None, Some(FulfillmentRule(r2))>> :
                    r1 \in RuleRequests, r2 \in RuleRequests}

C15_Answer(result) == [action |-> result.action, matched_rules |-> result.matched_rules]

C15_EvaluationIgnoresRuleRows ==
    [][\A order_id \in DOMAIN orders :
         evaluate_order_rules(order_id) =>
            \A rule_rows \in C15_RuleTables :
                C15_Answer(last'.result) =
                    C15_Answer(evaluate_order(
                        <<Order(None, orders[order_id].amount_cents, "paid", None)>>,
                        EngineRules(rule_rows), 1))]_vars

C15_Witness ==
    /\ last.op = "evaluate_order_rules"
    /\ last.order_id \in DOMAIN orders
    /\ orders[last.order_id].amount_cents < 5000
    /\ last.result.action = "auto_fulfill"
    /\ \E i \in DOMAIN fulfillment_rules :
           /\ fulfillment_rules[i] # None
           /\ fulfillment_rules[i][1].is_enabled
           /\ fulfillment_rules[i][1].action = "reject"

(***************************************************************************)
(* C16: in score_trend, recommend_pricing, generate_product_description    *)
(* and generate_ad_copy, whenever the external call raises or its reply    *)
(* cannot be parsed, the heuristic fallback result is returned and no      *)
(* exception reaches the caller; the external call is attempted once.      *)
(***************************************************************************)
C16_CallOrParseFails(response) ==
    \/ response.kind = "raises"
    \/ response.blocks = 0
    \/ response.json # "object"
    \/ \E key \in DOMAIN response.fields :
           /\ key = "trend_score"
           /\ "error" \in DOMAIN Float(response.fields[key])

C16_Fallback ==
    CASE last.op = "score_trend" ->
             _heuristic_score(last.args[1], last.args[2], last.args[3], last.args[4])
      [] last.op = "recommend_pricing" -> _heuristic_pricing(last.args[1], last.args[2])
      [] last.op = "generate_product_description" -> _fallback_description(last.args[1])
      [] last.op = "generate_ad_copy" -> _fallback_ad_copy(last.args[1])

C16_FailuresFallBack ==
    (last.op # "init" /\ last.client) =>
        /\ last.calls = 1
        /\ "raised" \notin DOMAIN last.outcome
        /\ C16_CallOrParseFails(last.response) => last.outcome.returned = C16_Fallback

(***************************************************************************)
(* C17: the heuristic pricing fallback computes base = int(cost * (1 +     *)
(* margin)) and suggests a price ending in 99 or 49 chosen by the bracket  *)
(* of base: below 1000 the hundred of base plus 99, below 5000 the five    *)
(* hundred of base plus 499, otherwise the thousand of base plus 999; for  *)
(* cost 899 and margin 0.5 the base is 1348 and the suggestion 1499.       *)
(***************************************************************************)
C17_Base == (last.args[1] * (100 + last.args[2])) \div 100

C17_HeuristicPricing ==
    (last.op = "recommend_pricing" /\ ~last.client) =>
        LET suggested == last.outcome.returned.suggested_price_cents
        IN  /\ suggested % 100 \in {99, 49}
            /\ C17_Base < 1000 => suggested = C17_Base - (C17_Base % 100) + 99
            /\ (C17_Base >= 1000 /\ C17_Base < 5000) =>
                   suggested = C17_Base - (C17_Base % 500) + 499
            /\ C17_Base >= 5000 => suggested = C17_Base - (C17_Base % 1000) + 999
            /\ last.args = <<899, 50>> => (C17_Base = 1348 /\ suggested = 1499)

C17_Witness ==
    /\ last.op = "recommend_pricing"
    /\ ~last.client
    /\ last.args = <<899, 50>>
    /\ last.outcome.returned.suggested_price_cents = 1499

(***************************************************************************)
(* C18: for every window length days in 1..365, the revenue time series    *)
(* over a window with no qualifying order has exactly one entry per        *)
(* calendar day from the start of the window to now, the dates strictly    *)
(* ascending (hence pairwise distinct) and every revenue 0.                *)
(***************************************************************************)
C18_DateBefore(a, b) ==
    \/ a[1] < b[1]
    \/ a[1] = b[1] /\ a[2] < b[2]
    \/ a[1] = b[1] /\ a[2] = b[2] /\ a[3] < b[3]

C18_NoQualifyingOrder ==
    \A i \in DOMAIN orders :
        ~(/\ AtOrAfter(orders[i].created_at, MinusDays(last.now, last.days))
          /\ orders[i].status \in {"paid", "fulfilled", "shipped", "delivered"})

C18_EmptyWindowSeries ==
    (last.op = "get_revenue_timeseries" /\ C18_NoQualifyingOrder) =>
        /\ Len(last.result) = last.days + 1
        /\ last.result[1].date = Strftime(MinusDays(last.now, last.days))
        /\ last.result[Len(last.result)].date = Strftime(last.now)
        /\ \A i \in 1..(Len(last.result) - 1) :
               C18_DateBefore(last.result[i].date, last.result[i + 1].date)
        /\ \A i \in DOMAIN last.result : last.result[i].revenue = 0

C18_Witness ==
    /\ last.op = "get_revenue_timeseries"
    /\ last.days = 365
    /\ C18_NoQualifyingOrder
    /\ orders # <<>>
    /\ orders[1].status = "paid"
    /\ \E i \in DOMAIN last.result : last.result[i].date = <<2024, 2, 29>>

(***************************************************************************)
(* C19: in the overview, conversion funnel, admin stats and period metrics *)
(* no table of orders and views makes an aggregation raise a division by   *)
(* zero, and every ratio whose denominator is zero is 0: the conversion    *)
(* rates without views, the average order value without orders, the        *)
(* deltas without a previous period, the cart rate without carts.          *)
(***************************************************************************)
C19_Start == MinusDays(last.now, last.days)

C19_Views(since) ==
    Cardinality({i \in DOMAIN product_views :
                    AtOrAfter(product_views[i].viewed_at, since)})

C19_Orders(since, statuses) ==
    Cardinality({i \in DOMAIN orders : /\ AtOrAfter(orders[i].created_at, since)
                                       /\ orders[i].status \in statuses})

C19_Counted == {"paid", "fulfilled", "shipped", "delivered"}

C19_AnyStatus == {orders[i].status : i \in DOMAIN orders}

C19_PreviousOrders ==
    C19_Orders(MinusDays(C19_Start, last.days), C19_Counted)
        - C19_Orders(C19_Start, C19_Counted)

C19_ZeroDenominators ==
    /\ last.op \in {"get_overview", "get_conversion_funnel", "get_admin_stats",
                    "get_metrics_for_period"}
           => ("raised" \in DOMAIN last.outcome => last.outcome.raised # "ZeroDivisionError")
    /\ last.op = "get_overview" =>
           /\ "returned" \in DOMAIN last.outcome
           /\ C19_Views(C19_Start) = 0 => last.outcome.returned.conversion_rate = 0
           /\ C19_Orders(C19_Start, C19_Counted) = 0 =>
                  last.outcome.returned.avg_order_value_cents = 0
           /\ C19_PreviousOrders = 0 =>
                  /\ last.outcome.returned.revenue_change = 0
                  /\ last.outcome.returned.orders_change = 0
    /\ last.op = "get_conversion_funnel" =>
           /\ "returned" \in DOMAIN last.outcome
           /\ C19_Views(C19_Start) = 0 =>
                  /\ last.outcome.returned.view_to_cart_rate = 0
                  /\ last.outcome.returned.overall_conversion = 0
           /\ C19_Orders(C19_Start, C19_AnyStatus) = 0 =>
                  last.outcome.returned.cart_to_purchase_rate = 0
    /\ last.op = "get_admin_stats" =>
           /\ "returned" \in DOMAIN last.outcome
           /\ C19_Views(MinusDays(Midnight(last.now), 7)) = 0 =>
                  last.outcome.returned.conversion_rate = 0
    /\ (last.op = "get_metrics_for_period" /\ "returned" \in DOMAIN last.outcome) =>
           /\ last.outcome.returned.orders = 0
           /\ last.outcome.returned.avg_order_value_cents = 0

C19_Witness ==
    /\ last.op = "get_overview"
    /\ product_views = <<>>
    /\ C19_PreviousOrders = 0
    /\ "returned" \in DOMAIN last.outcome
    /\ last.outcome.returned.total_orders = 2
    /\ last.outcome.returned.conversion_rate = 0
    /\ last.outcome.returned.revenue_change = 0
    /\ last.outcome.returned.avg_order_value_cents = 2499

(***************************************************************************)
(* C20: every Product row has a slug no other product has, made of         *)
(* lowercase letters and digits in hyphen-separated groups and 3 to 100    *)
(* characters long, a price of at least 0, trend and urgency scores from   *)
(* 0 to 100 and one of the statuses testing, live, paused, killed,         *)
(* whichever path created or updated it.                                   *)
(***************************************************************************)
C20_ValidProduct(product) ==
    /\ SlugGroups(product.slug)
    /\ Len(product.slug) >= 3
    /\ Len(product.slug) <= 100
    /\ product.price_cents >= 0
    /\ product.trend_score >= 0
    /\ product.trend_score <= 100
    /\ product.urgency_score >= 0
    /\ product.urgency_score <= 100
    /\ product.status \in {"testing", "live", "paused", "killed"}

C20_ProductInvariant ==
    /\ \A i \in DOMAIN products : C20_ValidProduct(products[i])
    /\ \A i, j \in DOMAIN products : products[i].slug = products[j].slug => i = j

(***************************************************************************)
(* C21: with a webhook secret configured, a Stripe event whose payload or  *)
(* signature fails verification is answered 400 and no order is created or *)
(* modified; without a secret an event is processed whether or not its     *)
(* signature would verify.                                                 *)
(***************************************************************************)
C21_Processed(event) ==
    /\ last'.code = 200
    /\ event.type = "checkout.session.completed" =>
           /\ Len(orders') = Len(orders) + 1
           /\ orders'[Len(orders')].stripe_session_id = event.id
           /\ orders'[Len(orders')].status = "paid"
    /\ event.type = "checkout.session.expired" =>
           \A i \in DOMAIN orders :
               orders[i].stripe_session_id # event.id => orders'[i] = orders[i]

\* the event of the answered call, from its recorded fields, with a signature
\* that does not verify
C21_Unverified ==
    [type         |-> last'.type,
     id           |-> IF "session_id" \in DOMAIN last' THEN last'.session_id ELSE None,
     amount_total |-> IF "amount_total" \in DOMAIN last' THEN last'.amount_total ELSE 1999,
     product_slug |-> IF "product_slug" \in DOMAIN last' THEN last'.product_slug ELSE None,
     signature_ok |-> FALSE]

C21_Step ==
    /\ (last'.op = "stripe_webhook" /\ last'.type \in EventTypes
           /\ stripe_webhook(C21_Unverified)) =>
           IF webhook_secret
           THEN last'.code = 400 /\ orders' = orders
           ELSE C21_Processed(C21_Unverified)
    /\ (stripe_webhook_malformed /\ webhook_secret) =>
           (last'.code = 400 /\ orders' = orders)

C21_VerificationGate == [][C21_Step]_vars

C21_Witness ==
    /\ webhook_secret
    /\ last.op = "stripe_webhook"
    /\ last.code = 400
    /\ last.type = "checkout.session.completed"
    /\ orders # <<>>

(***************************************************************************)
(* C22: validate_slug accepts a string exactly when it consists of groups  *)
(* of lowercase letters and digits separated by single hyphens, from its   *)
(* first character to its last, and is 3 to 100 characters long; every     *)
(* other string is refused with a validation error.                        *)
(***************************************************************************)
C22_WellFormed(value) ==
    /\ SlugGroups(value)
    /\ Len(value) >= 3
    /\ Len(value) <= 100

C22_AcceptsExactlySlugs ==
    last.op = "validate_slug" => (last.accepted <=> C22_WellFormed(last.value))

(***************************************************************************)
(* C23: a suggestion's product_id is set exactly when its status is        *)
(* approved, so no sequence of approve and reject calls leaves a rejected  *)
(* suggestion linked to a product.                                         *)
(***************************************************************************)
C23_LinkedExactlyWhenApproved ==
    \A i \in DOMAIN suggestions :
        suggestions[i].product_id # None <=> suggestions[i].status = "approved"

(***************************************************************************)
(* C24: when two auto_order_from_supplier calls for the same pending,      *)
(* eligible order interleave, at most one of them returns success and the  *)
(* order's supplier_order_id is assigned once.                             *)
(***************************************************************************)
C24_Succeeded(order_id) ==
    {call \in DOMAIN in_flight :
        /\ in_flight[call].order_id = order_id
        /\ in_flight[call].pc = "returned"
        /\ in_flight[call].result.success}

C24_AtMostOneSuccess ==
    \A order_id \in DOMAIN orders : Cardinality(C24_Succeeded(order_id)) <= 1

(***************************************************************************)
(* C25: once a successful auto-order has set an order's supplier_order_id, *)
(* no later operation replaces it with another identifier and no later     *)
(* auto-order or queue pass places a supplier order for that order again.  *)
(***************************************************************************)
C25_PlacedAgain(order_id) ==
    \/ /\ last'.op = "auto_order_from_supplier"
       /\ last'.order_id = order_id
       /\ last'.result.success
    \/ /\ last'.op = "process_fulfillment_queue"
       /\ \E r \in DOMAIN last'.results :
              /\ last'.results[r].order_id = order_id
              /\ last'.results[r].success

C25_Step ==
    \A order_id \in DOMAIN orders :
        orders[order_id].supplier_order_id # None =>
            /\ orders'[order_id].supplier_order_id = orders[order_id].supplier_order_id
            /\ ~C25_PlacedAgain(order_id)

C25_SupplierOrderPlacedOnce == [][C25_Step]_vars

(***************************************************************************)
(* C26: no order amount is accepted by the value check of the eligibility  *)
(* test, selected by the queue query, and also given hold_for_review by    *)
(* evaluate_order with the default rules.                                  *)
(***************************************************************************)
C26_ValueAccepted(order_id) ==
    LET reasons == check_auto_fulfill_eligibility(orders, products, order_id).reasons
    IN  \A r \in DOMAIN reasons : reasons[r].text # "Order value exceeds auto-fulfill limit"

C26_QueueSelects(order_id) ==
    \E pending_orders \in PendingOrdersQuery(orders) :
        \E k \in DOMAIN pending_orders : pending_orders[k] = order_id

C26_ValueChecksAgree ==
    (/\ last.op = "evaluate_order_rules"
     /\ last.order_id \in DOMAIN orders
     /\ last.result.action = "hold_for_review")
        => ~(C26_ValueAccepted(last.order_id) /\ C26_QueueSelects(last.order_id))

(***************************************************************************)
(* C27: in every reachable state an integration that is connected is also  *)
(* active; after disconnect no test, update or sync connects it again.     *)
(***************************************************************************)
C27_ConnectedImpliesActive ==
    \A i \in DOMAIN integrations :
        integrations[i].is_connected => integrations[i].is_active

(***************************************************************************)
(* C28: trigger_sync on an integration that is not connected answers 400   *)
(* and changes nothing; an accepted call marks the row 'syncing' and, when *)
(* it returns, 'synced' with sync_error cleared or 'error' with sync_error *)
(* recorded; a row is 'syncing' only while a call on it has not returned,  *)
(* and sync_status is always one of pending, syncing, synced, error, ready.*)
(***************************************************************************)
C28_Statuses == {"pending", "syncing", "synced", "error", "ready"}

C28_StatusInvariant ==
    \A i \in DOMAIN integrations :
        /\ integrations[i].sync_status \in C28_Statuses
        /\ integrations[i].sync_status = "syncing"
              => \E c \in DOMAIN in_flight : /\ in_flight[c].integration_id = i
                                             /\ in_flight[c].pc = "syncing"

\* the step is a trigger_sync request arriving for an existing integration
C28_Requested ==
    /\ last'.op = "trigger_sync"
    /\ last'.integration_id \in DOMAIN integrations
    /\ \/ in_flight' = in_flight
       \/ Len(in_flight') = Len(in_flight) + 1

\* the call in slot c returns in this step
C28_Returns(c) ==
    /\ c \in DOMAIN in_flight'
    /\ in_flight'[c].pc = "returned"
    /\ c \in DOMAIN in_flight => in_flight[c].pc = "syncing"

C28_Step ==
    /\ C28_Requested =>
          LET i == last'.integration_id
          IN  IF ~integrations[i].is_connected
              THEN /\ "code" \in DOMAIN last' /\ last'.code = 400
                   /\ UNCHANGED <<integrations, in_flight>>
              ELSE /\ Len(in_flight') = Len(in_flight) + 1
                   /\ \/ integrations'[i].sync_status = "syncing"
                      \/ C28_Returns(Len(in_flight'))
    /\ \A c \in DOMAIN in_flight' :
          C28_Returns(c) =>
              LET row == integrations'[in_flight'[c].integration_id]
              IN  IF in_flight'[c].success
                  THEN row.sync_status = "synced" /\ row.sync_error = None
                  ELSE row.sync_status = "error" /\ row.sync_error # None

DefaultMarginPercent == 50

C29_HeuristicCall ==
    /\ last.op = "recommend_pricing"
    /\ ~last.client
    /\ last.args[1] > 0
    /\ last.args[2] = DefaultMarginPercent

C29_SuggestedWithinRange ==
    C29_HeuristicCall =>
        LET pricing == last.outcome.returned
        IN  /\ pricing.min_price_cents <= pricing.suggested_price_cents
            /\ pricing.suggested_price_cents <= pricing.max_price_cents
            /\ pricing.suggested_price_cents >= BasePrice(last.args[1], last.args[2])

(***************************************************************************)
(* C30: a TrendProduct is imported at most once.  The first import adds    *)
(* exactly one Product, whose slug no existing product uses, and sets      *)
(* is_imported and imported_product_id to that product; a later import of  *)
(* the same TrendProduct answers 400 and changes nothing; is_imported is   *)
(* true exactly when imported_product_id is set.                           *)
(***************************************************************************)
C30_FlagMatchesLink ==
    \A t \in DOMAIN trend_products :
        trend_products[t].is_imported <=> trend_products[t].imported_product_id # None

\* the trend products whose import columns this step writes
C30_Written ==
    {t \in DOMAIN trend_products : trend_products'[t] # trend_products[t]}

C30_Step ==
    /\ DOMAIN trend_products' = DOMAIN trend_products
    \* an imported trend product is never written again
    /\ \A t \in C30_Written : ~trend_products[t].is_imported
    \* a request for an imported trend product is refused and changes nothing
    /\ \A request \in TrendImportRequests :
          (/\ request.trend_product_id \in DOMAIN trend_products
           /\ trend_products[request.trend_product_id].is_imported
           /\ import_trend_product(request))
              => /\ last'.code = 400
                 /\ UNCHANGED <<products, trend_products>>
    \* an accepted import adds one product under a free slug and links it
    /\ (last'.op = "import_trend_product" /\ last'.code = 200) =>
          /\ Len(products') = Len(products) + 1
          /\ SubSeq(products', 1, Len(products)) = products
          /\ ~SlugTaken(products, products'[Len(products')].slug)
          /\ last'.product_id = Len(products')
          /\ \E t \in DOMAIN trend_products :
                /\ C30_Written = {t}
                /\ trend_products'[t] =
                       [trend_products[t] EXCEPT
                           !.is_imported = TRUE,
                           !.imported_product_id = Some(Len(products'))]
    /\ (last'.op = "import_trend_product" /\ last'.code # 200) =>
          UNCHANGED <<products, trend_products>>
    \* no other operation touches the import columns
    /\ last'.op # "import_trend_product" => C30_Written = {}

C30_ImportedOnce == []C30_FlagMatchesLink /\ [][C30_Step]_vars

\* a second import of an imported trend product has just been refused
C30_Witness ==
    /\ last.op = "import_trend_product"
    /\ last.code = 400
    /\ Len(products) = 1
    /\ \E t \in DOMAIN trend_products :
          /\ trend_products[t].is_imported
          /\ trend_products[t].imported_product_id = Some(1)

====
